---- MODULE Spec2Model ----
(***************************************************************************)
(* The batch orchestrator of the Ren'Py translator (src/src/ui/state.ts),  *)
(* its provider adapters (lib/translate) and the retry combinator          *)
(* (lib/utils), as a state machine.  One file X with NItems dialogue rows  *)
(* is open; up to two translateScope runs, cancelTranslate, the manual    *)
(* edits and the provider's responses interleave at the awaits of the code.*)
(***************************************************************************)
EXTENDS Integers, Sequences, FiniteSets, TLC

\* ------------------------------------------------------------ bounds
NItems == 3
MaxBatch == 2

\* ------------------------------------------------- program constants
MaxBatchSize == 60
DefaultBatchSize == 20
DeepSeekRetries == 1
DeepLRetries == 1
LingvaMaxRetries == 3

Items == 1..NItems
Runs == {"A", "B"}
Scopes == {"all", "filtered", "selected", "missing"}

\* ------------------------------------------------------------- texts
\* A string is a sequence of tokens; " " is a whitespace token.
null == <<"<null>">>

\* what db.dialogs.get gives for a row that has been deleted
Absent == <<"<undefined>">>
ProviderLines == {<<"hi">>, <<" ">>}

RECURSIVE TrimLeft(_)
TrimLeft(t) == IF t = <<>> THEN <<>>
               ELSE IF Head(t) = " " THEN TrimLeft(Tail(t)) ELSE t

RECURSIVE TrimRight(_)
TrimRight(t) == IF t = <<>> THEN <<>>
                ELSE IF t[Len(t)] = " " THEN TrimRight(SubSeq(t, 1, Len(t) - 1)) ELSE t

Trim(t) == TrimRight(TrimLeft(t))

\* d.translated && d.translated.trim()
HasTranslation(t) == t # null /\ t # <<>> /\ Trim(t) # <<>>

\* h?.translatedText : a non-empty string is truthy, whitespace included
Truthy(t) == t # null /\ t # <<>>

\* toLowerCase(), one token at a time
LowerToken(c) == CASE c = "VI" -> "vi" [] c = "Two" -> "two" [] OTHER -> c
Lower(t) == [j \in 1..Len(t) |-> LowerToken(t[j])]

Min(a, b) == IF a <= b THEN a ELSE b
Max(a, b) == IF a >= b THEN a ELSE b

\* ------------------------------------------------------ imported rows
\* cacheKey of row i: rows with an odd index share one source text.
CacheKey(i) == IF i % 2 = 1 THEN <<"k1">> ELSE <<"k2", " ">>

\* quote of row i, the text the filter of the view is matched against
Quote(i) == IF i % 2 = 1 THEN <<"one">> ELSE <<"Two">>

\* s.toLowerCase().includes(f), f being one token
Includes(t, f) == \E j \in 1..Len(t) : LowerToken(t[j]) = f

dialogSourceKey(i) == Trim(CacheKey(i))

\* the language used as written: no trim(), no toLowerCase()
tmKeyRawLang(targetLang, sourceKey) == <<targetLang, Trim(sourceKey)>>

\* `${targetLang.trim().toLowerCase()}::${sourceKey.trim()}`
tmKey(targetLang, sourceKey) == <<Lower(Trim(targetLang)), Trim(sourceKey)>>

\* a language code as the settings may hold it
TargetLangs == {<<"vi">>, <<"es">>, <<"VI", " ">>}
TMKeys == {tmKey(l, dialogSourceKey(i)) : l \in TargetLangs, i \in Items}
NoEntry == [translatedText |-> null, useCount |-> 0, targetLang |-> null, sourceKey |-> null]

\* ----------------------------------------------------------- lingva
\* a URL is a sequence of tokens: the host, then "/" if it ends with a slash
LINGVA_BASE_URLS ==
  <<<<"lunar">>, <<"dialect">>, <<"ml">>, <<"vercel">>, <<"plausibility">>, <<"garuda">>>>

\* the base URLs the settings may hold: setLingvaBaseUrl trims them
BaseUrls == {<<"lunar">>, <<"custom">>, <<"lunar", "/">>}

SeqFilter(s, Keep(_)) ==
  LET F[k \in 0..Len(s)] ==
        IF k = 0 THEN <<>>
        ELSE IF Keep(s[k]) THEN Append(F[k - 1], s[k]) ELSE F[k - 1]
  IN F[Len(s)]

\* [String(baseUrl||'').trim()].filter(Boolean).concat(LINGVA_BASE_URLS.filter(u => u !== baseUrl))
LingvaUrls(baseUrl) ==
  (IF Trim(baseUrl) = <<>> THEN <<>> ELSE <<Trim(baseUrl)>>)
    \o SeqFilter(LINGVA_BASE_URLS, LAMBDA u : u # baseUrl)

\* the cap of 3 retries forgotten: one retry per further mirror
LingvaRetriesUncapped(baseUrl) == Len(LingvaUrls(baseUrl)) - 1

LingvaRetries(baseUrl) == Min(LingvaMaxRetries, Len(LingvaUrls(baseUrl)) - 1)

\* baseUrl.replace(/\/$/, '') : the endpoint a request is sent to
Endpoint(u) == IF u # <<>> /\ u[Len(u)] = "/" THEN SubSeq(u, 1, Len(u) - 1) ELSE u

\* urls[Math.min(urls.length - 1, attempt)]
MirrorOf(baseUrl, attempt) ==
  LET urls == LingvaUrls(baseUrl) IN urls[Min(Len(urls) - 1, attempt) + 1]

\* getDeepLLangCode: languages with a deepl code
DeepLSupported(lang) == Lower(Trim(lang)) \in {<<"es">>}

\* ------------------------------------------------------------- state
VARIABLES
  settings,     \* p.settings after normalizeSettings
  keys,         \* get().keys : the API keys in localStorage
  dialogs,      \* db.dialogs of the current file: row id -> translated
  tm,           \* db.tm : key -> entry
  activeAbort,  \* the module-level AbortController ("none" = null)
  aborted,      \* the controllers whose signal has fired
  progress,     \* get().progress
  logs,         \* the appended log entries <<level, message>>
  view,         \* get().filter, get().selected, get().showUntranslatedOnly
  hist,         \* history: the last text written per row and per TM key
  run,          \* the locals of each translateScope invocation
  files,        \* db.files : the file rows of the project
  others,       \* db.dialogs : the rows of the files imported later
  op,           \* the locals of the store action in progress, if any
  call,         \* the call in progress of translator.js or of a relay handler
  stateDialogs, \* get().dialogs : the rows of the current file as the list holds them
  rowFields     \* db.dialogs of the current file: row -> the fields beside translated

vars == <<settings, keys, dialogs, tm, activeAbort, aborted, progress, logs, view, hist, run,
          files, others, op, call, stateDialogs, rowFields>>

\* the file the rows of dialogs belong to
CurrentFile == [id |-> "X", dialogCount |-> NItems]

DigitChars == <<"0", "1", "2", "3", "4", "5", "6", "7", "8", "9">>

\* String(n)
RECURSIVE Digits(_)
Digits(n) ==
  IF n < 10 THEN <<DigitChars[n + 1]>>
  ELSE Digits(n \div 10) \o <<DigitChars[(n % 10) + 1]>>

\* `${fileId}:${idx}`
RowId(fileId, idx) == <<fileId, ":">> \o Digits(idx)

PlaceholderTokens == {"PH0"}
PlaceholderMap(i) == IF i = 3 THEN [t \in PlaceholderTokens |-> "[p]"] ELSE <<>>

\* the fields of row i that importLocalFiles sets and no writer assigns
ImportFields(i) ==
  [id |-> RowId(CurrentFile.id, i - 1), fileId |-> CurrentFile.id, idx |-> i - 1,
   quote |-> Quote(i), placeholderMap |-> PlaceholderMap(i), cacheKey |-> CacheKey(i)]

\* no row under the id
NoRow ==
  [id |-> null, fileId |-> null, idx |-> -1,
   quote |-> null, placeholderMap |-> <<>>, cacheKey |-> null]

\* a row rebuilt from its text alone
PutFieldsTextOnly(f, i, row) == [f EXCEPT ![i] = NoRow]

\* db.dialogs.put(row), db.dialogs.bulkPut(rows): the row object as it is held
PutFields(f, i, row) == [f EXCEPT ![i] = row]

IdleOp == [pc |-> "idle"]
IdleCall == [pc |-> "idle"]

IdleProgress == [running |-> FALSE, total |-> 0, done |-> 0]

IdleRun == [pc |-> "idle", scope |-> "all", cands |-> <<>>, start |-> 0,
            signal |-> "none", attempt |-> 0, out |-> <<>>, lastErr |-> "none",
            err |-> "none", outcome |-> "none", toUpdate |-> {}, warnIdxs |-> <<>>,
            nreq |-> 0, calls |-> 0, ncommit |-> 0,
            wrote |-> [i \in Items |-> null], tmPut |-> {}, supersededAt |-> -1,
            cands0 |-> <<>>, filled |-> {}, sent |-> {}, mirrors |-> <<>>,
            cancelHit |-> FALSE, batches |-> <<>>,
            errs |-> <<>>, nretry |-> 0, nsleep |-> 0, tmRead |-> FALSE,
            rowsRead |-> <<>>]

\* a stored batchSize v: Number(v) is finite or not, and when finite it is
\* v.halves / 2 (so that values that are not integers can be stored)
StoredBatchSize(n) == [finite |-> TRUE, halves |-> 2 * n]
SmallBatchSizes == {StoredBatchSize(n) : n \in 1..MaxBatch}
StoredBatchSizes ==
  {[finite |-> TRUE, halves |-> h] : h \in {-3, 0, 1, 5, 400}}
    \cup SmallBatchSizes \cup {[finite |-> FALSE, halves |-> 0]}

\* normalizeSettings: batchSize floored and clamped to 1..60, 20 when Number(v)
\* is not finite
NormalBatchSize(v) ==
  IF v.finite THEN Max(1, Min(MaxBatchSize, v.halves \div 2)) ELSE DefaultBatchSize

ApiKeys == {<<>>, <<" ">>, <<"sk">>}

\* engine, key of that engine, target language, lingva base url
Setups ==
  {[engine |-> "deepseek", key |-> k, targetLang |-> <<"vi">>, lingvaBaseUrl |-> <<"lunar">>] : k \in ApiKeys}
  \cup {[engine |-> "deepl", key |-> <<"sk">>, targetLang |-> l, lingvaBaseUrl |-> <<"lunar">>] : l \in {<<"vi">>, <<"es">>}}
  \cup {[engine |-> "deepl", key |-> <<" ">>, targetLang |-> <<"es">>, lingvaBaseUrl |-> <<"lunar">>]}
  \cup {[engine |-> "lingva", key |-> <<>>, targetLang |-> <<"vi">>, lingvaBaseUrl |-> u] : u \in BaseUrls}

TMFlags == {<<TRUE, TRUE>>, <<TRUE, FALSE>>, <<FALSE, TRUE>>}

\* the TM before the run: empty, or one entry under the key of the odd rows,
\* imported under the trimmed, lower-case language
InitialTMs(lang) ==
  {[k \in TMKeys |-> NoEntry],
   [k \in TMKeys |-> IF k = <<Lower(Trim(lang)), <<"k1">>>>
                       THEN [translatedText |-> <<"memo">>, useCount |-> 0,
                             targetLang |-> k[1], sourceKey |-> k[2]]
                       ELSE NoEntry]}

\* no filter, no selection, every row shown
PlainView == [filter |-> "", selected |-> {}, showUntranslatedOnly |-> FALSE]

InitApp(S, V, B) ==
  /\ view \in V
  /\ \E s \in S, f \in TMFlags, b \in B :
       /\ settings = [engine |-> s.engine, targetLang |-> s.targetLang,
                      batchSize |-> NormalBatchSize(b), lingvaBaseUrl |-> s.lingvaBaseUrl,
                      tmEnabled |-> f[1], tmAutoAdd |-> f[2]]
       /\ keys = [deepseekKey |-> IF s.engine = "deepseek" THEN s.key ELSE <<>>,
                  deeplKey |-> IF s.engine = "deepl" THEN s.key ELSE <<>>]
       /\ tm \in InitialTMs(s.targetLang)
  /\ dialogs = [i \in Items |-> null]
  /\ stateDialogs = dialogs
  /\ rowFields = [i \in Items |-> ImportFields(i)]
  /\ hist = [written |-> [i \in Items |-> null],
              stored |-> [k \in TMKeys |-> null],
              storedText |-> [k \in TMKeys |-> null],
              nedits |-> 0]
  /\ activeAbort = "none"
  /\ aborted = {}
  /\ progress = IdleProgress
  /\ logs = <<>>
  /\ run = [r \in Runs |-> IdleRun]
  /\ files = {CurrentFile}
  /\ others = {}
  /\ op = IdleOp

InitWith(S, V, B) == InitApp(S, V, B) /\ call = IdleCall

\* --------------------------------------------------------- withRetry
\* the abort check at the top of an attempt left out
AbortIgnoredAtAttempt(sig, ab) == FALSE

\* signal?.aborted at the top of an attempt
AbortedAtAttempt(sig, ab) == sig \in ab

\* for (let attempt = 0; attempt <= retries; attempt++)
LoopContinues(att, retries) == att <= retries

\* the break taken one attempt too late
RetryExhaustedLate(att, retries) == att > retries

\* if (attempt >= retries) break
RetryExhausted(att, retries) == att >= retries

\* sleep(ms, signal): rejects at once when the signal has already fired
SleepRejects(sig, ab) == sig \in ab

\* one turn of the loop: the abort check, then fn(attempt)
Attempt(rec, ab) ==
  IF AbortedAtAttempt(rec.signal, ab)
    THEN [rec EXCEPT !.pc = "catch", !.err = "abort", !.cancelHit = TRUE]
    ELSE [rec EXCEPT !.pc = "inflight", !.calls = @ + 1, !.nreq = @ + 1,
                     !.mirrors = IF settings.engine = "lingva"
                                   THEN Append(@, Endpoint(MirrorOf(settings.lingvaBaseUrl, rec.attempt)))
                                   ELSE @]

\* errs, nretry and nsleep are history: the errors fn has thrown, the calls
\* of onRetry and the backoff sleeps begun, in this invocation; they are
\* dropped by the step that follows its return or throw
withRetry(rec, ab) ==
  Attempt([rec EXCEPT !.attempt = 0, !.lastErr = "none", !.calls = 0, !.mirrors = <<>>,
                      !.errs = <<>>, !.nretry = 0, !.nsleep = 0], ab)

\* the catch block of the loop, fn having thrown e
OnFnError(rec, e, retries, ab) ==
  LET x == [rec EXCEPT !.lastErr = e, !.errs = Append(@, e)] IN
  IF RetryExhausted(rec.attempt, retries)
    THEN [x EXCEPT !.pc = "catch", !.err = x.lastErr]
    ELSE IF SleepRejects(rec.signal, ab)
      THEN [x EXCEPT !.pc = "catch", !.err = "abort", !.cancelHit = TRUE, !.nretry = @ + 1]
      ELSE [x EXCEPT !.pc = "sleeping", !.nretry = @ + 1, !.nsleep = @ + 1]

\* --------------------------------------------------------- adapters
Retries ==
  CASE settings.engine = "deepseek" -> DeepSeekRetries
    [] settings.engine = "deepl" -> DeepLRetries
    [] OTHER -> LingvaRetries(settings.lingvaBaseUrl)

\* the key tested without trim()
KeyMissingUntrimmed(k) == k = <<>>

\* String(key || '').trim() is empty
KeyMissing(k) == Trim(k) = <<>>

EngineKey ==
  IF settings.engine = "deepseek" THEN keys.deepseekKey ELSE keys.deeplKey

\* the length comparison left out
LengthUnchecked(arr, n) == TRUE

\* out.length !== src.length
LengthOK(arr, n) == Len(arr) = n

Arrays(n, lines) == UNION {[1..k -> lines] : k \in 0..(n + 1)}

\* what a provider may answer; env bounds the answers the environment gives
Responses(n, env) ==
  LET failures == CASE settings.engine = "deepseek" -> {"http", "nocontent", "notarray"}
                    [] settings.engine = "deepl" -> {"http", "notarray"}
                    [] OTHER -> {"http", "nofield"}
  IN {[kind |-> k, arr |-> <<>>] : k \in failures \cap env.failures}
       \cup (IF settings.engine = "lingva"
               THEN {[kind |-> "line", arr |-> <<t>>] : t \in env.lines}
               ELSE {[kind |-> "array", arr |-> a] : a \in Arrays(n, env.lines)})

\* the closure run() of translateBatchDeepSeek on one response
DeepSeekRun(resp, n) ==
  CASE resp.kind = "http" -> [ok |-> FALSE, e |-> "http", val |-> <<>>]
    [] resp.kind = "nocontent" -> [ok |-> FALSE, e |-> "nocontent", val |-> <<>>]
    [] resp.kind = "notarray" -> [ok |-> FALSE, e |-> "notarray", val |-> <<>>]
    [] OTHER -> IF LengthOK(resp.arr, n)
                  THEN [ok |-> TRUE, e |-> "none", val |-> resp.arr]
                  ELSE [ok |-> FALSE, e |-> "mismatch", val |-> <<>>]

\* the closure run() of translateBatchDeepL: no translations array reads as []
DeepLRun(resp, n) ==
  LET o == IF resp.kind = "array" THEN resp.arr ELSE <<>> IN
  CASE resp.kind = "http" -> [ok |-> FALSE, e |-> "http", val |-> <<>>]
    [] OTHER -> IF LengthOK(o, n)
                  THEN [ok |-> TRUE, e |-> "none", val |-> o]
                  ELSE [ok |-> FALSE, e |-> "mismatch", val |-> <<>>]

lingvaTranslateLine(resp) ==
  CASE resp.kind = "http" -> [ok |-> FALSE, e |-> "http", val |-> <<>>]
    [] resp.kind = "nofield" -> [ok |-> FALSE, e |-> "nofield", val |-> <<>>]
    [] OTHER -> [ok |-> TRUE, e |-> "none", val |-> resp.arr]

\* translateBatch up to its first await: the key check, then the adapter
translateBatch(rec, ab) ==
  IF settings.engine \in {"deepseek", "deepl"} /\ KeyMissing(EngineKey)
    THEN [rec EXCEPT !.pc = "catch", !.err = "nokey"]
    ELSE IF settings.engine = "deepl" /\ ~DeepLSupported(settings.targetLang)
      THEN [rec EXCEPT !.pc = "catch", !.err = "unsupported"]
      ELSE withRetry([rec EXCEPT !.out = <<>>], ab)

\* ------------------------------------------------------ orchestrator
ItemSeq == [i \in 1..NItems |-> i]

\* the scope filter over the rows sorted by idx
Candidates(sc) ==
  SeqFilter(ItemSeq, LAMBDA i :
    /\ dialogs[i] # Absent
    /\ ~(sc = "missing" /\ HasTranslation(dialogs[i]))
    /\ ~(sc = "selected" /\ i \notin view.selected)
    /\ ~(/\ sc = "filtered" /\ view.filter # ""
          /\ ~Includes(Quote(i), view.filter)
          /\ ~Includes(IF dialogs[i] = null THEN <<>> ELSE dialogs[i], view.filter))
    /\ ~(view.showUntranslatedOnly /\ HasTranslation(dialogs[i])))

\* Math.max(1, Math.min(60, p.settings.batchSize || 20))
BatchSize ==
  Max(1, Min(MaxBatchSize, IF settings.batchSize = 0 THEN DefaultBatchSize ELSE settings.batchSize))

\* the slices taken from the end of the candidate list
BatchFromEnd(rec) ==
  LET n == Len(rec.cands) IN
  SubSeq(rec.cands, Max(1, n - rec.start - BatchSize + 1), n - rec.start)

\* every slice after the first starts one row early
BatchOverlapping(rec) ==
  SubSeq(rec.cands, Max(1, rec.start), Min(Len(rec.cands), rec.start + BatchSize))

\* candidates2.slice(start, start + batchSize)
Batch(rec) == SubSeq(rec.cands, rec.start + 1, Min(Len(rec.cands), rec.start + BatchSize))


unmaskTagsInText(t, map) ==
  [j \in 1..Len(t) |-> IF t[j] \in DOMAIN map THEN map[t[j]] ELSE t[j]]

\* normalizeLine(translated[i] ?? ''), then unmask with the row's map
postprocessTranslatedLines(batch, translated) ==
  [j \in 1..Len(batch) |->
     unmaskTagsInText(IF j <= Len(translated) THEN translated[j] ELSE <<>>,
                      PlaceholderMap(batch[j]))]

checkPlaceholders(t) == \E j \in 1..Len(t) : t[j] \in PlaceholderTokens

\* the upsert made whenever the TM is enabled
AutoAddWheneverEnabled(next) == settings.tmEnabled /\ Trim(next) # <<>>

\* the upsert made for every text, blank or not
AutoAddAnyText(next) == settings.tmEnabled /\ settings.tmAutoAdd

\* p.settings.tmEnabled && p.settings.tmAutoAdd && next.trim()
AutoAdd(next) == settings.tmEnabled /\ settings.tmAutoAdd /\ Trim(next) # <<>>

\* targetLang of a new entry in translateScope and updateTranslation:
\* String(p.settings.targetLang).trim().toLowerCase()
NormalLang == Lower(Trim(settings.targetLang))

\* targetLang of a new entry in bulkUpdateTranslations: settings.targetLang
StoredLang == settings.targetLang

\* an entry that exists is left as it is
UpsertTMKeepExisting(t, i, next, lang) ==
  IF AutoAdd(next)
    THEN LET k == tmKey(settings.targetLang, dialogSourceKey(i)) IN
         [t EXCEPT ![k] = IF t[k] # NoEntry
                            THEN t[k]
                            ELSE [translatedText |-> next, useCount |-> 0,
                                  targetLang |-> lang, sourceKey |-> dialogSourceKey(i)]]
    ELSE t

\* the TM upsert of one committed row; lang is the targetLang the writer
\* gives a new entry
UpsertTM(t, i, next, lang) ==
  IF AutoAdd(next)
    THEN LET k == tmKey(settings.targetLang, dialogSourceKey(i)) IN
         [t EXCEPT ![k] = IF t[k] # NoEntry
                            THEN [t[k] EXCEPT !.translatedText = next]
                            ELSE [translatedText |-> next, useCount |-> 0,
                                  targetLang |-> lang, sourceKey |-> dialogSourceKey(i)]]
    ELSE t

\* the row kept when it already holds a text
PutRowIfEmpty(d, i, next) == IF d[i] = null THEN [d EXCEPT ![i] = next] ELSE d

\* row.translated = next; db.dialogs.put(row)
PutRow(d, i, next) == [d EXCEPT ![i] = next]

\* history: rows 1..j of a transaction, in order; the text stored for row i
\* is filed under the TM key of the row
RECURSIVE Recorded(_, _, _, _)
Recorded(h, ids, texts, j) ==
  IF j = 0 THEN h
  ELSE LET prev == Recorded(h, ids, texts, j - 1)
           k == tmKey(settings.targetLang, dialogSourceKey(ids[j]))
       IN IF dialogs[ids[j]] = Absent THEN prev ELSE
          [prev EXCEPT !.written[ids[j]] = texts[j],
                       !.stored[k] = texts[j],
                       !.storedText[k] = IF Trim(texts[j]) # <<>> THEN texts[j] ELSE @]

\* the body of the batch transaction: rows 1..j of the batch written in
\* order; const row = await db.dialogs.get(d.id); if (!row) continue
RECURSIVE CommitRows(_, _, _, _, _, _)
CommitRows(batch, normalized, j, d, t, lang) ==
  IF j = 0 THEN [d |-> d, t |-> t]
  ELSE LET prev == CommitRows(batch, normalized, j - 1, d, t, lang)
           i == batch[j]
           next == normalized[j]
       IN IF prev.d[i] = Absent THEN prev
          ELSE [d |-> PutRow(prev.d, i, next), t |-> UpsertTM(prev.t, i, next, lang)]

\* the transaction closed after the first row of the batch
CommitFirstRowOnly(batch, normalized, d, t, lang) == CommitRows(batch, normalized, 1, d, t, lang)

\* db.transaction('rw', db.dialogs, db.tm, ...) of one batch
CommitBatch(batch, normalized, d, t, lang) == CommitRows(batch, normalized, Len(batch), d, t, lang)

\* applyTMToCurrentFile(mode): the rows to overwrite, as <<row, text>>
ToUpdate(mode) ==
  {<<i, tm[tmKey(settings.targetLang, dialogSourceKey(i))].translatedText>> :
     i \in {x \in Items :
              LET h == tm[tmKey(settings.targetLang, dialogSourceKey(x))].translatedText IN
              /\ dialogs[x] # Absent
              /\ Truthy(h)
              /\ ~(mode = "missing" /\ HasTranslation(dialogs[x]))
              /\ dialogs[x] # h}}

\* the signal not handed to fetch: only the backoff sleep ends on abort
InterruptedSleepOnly(rec, ctrl) == rec.pc = "sleeping" /\ rec.signal = ctrl

\* fetch(input, {signal}) and sleep(ms, signal) end when the signal fires
Interrupted(rec, ctrl) == rec.pc \in {"inflight", "sleeping"} /\ rec.signal = ctrl

\* where an abort finds a request: before the response has come (fetch
\* rejects), or while its body is read, the status being ok or not
AbortPhases == {"fetch", "body", "bodyOfError"}

\* fetchJson when the signal fires: fetch rejects with AbortError; a body
\* read that rejects is caught and reads as '', so json is null
AbortedFetch(ph) ==
  CASE ph = "fetch" -> "abort"
    [] ph = "bodyOfError" -> "http"
    [] OTHER -> CASE settings.engine = "deepseek" -> "nocontent"
                  [] settings.engine = "deepl" -> "mismatch"
                  [] OTHER -> "nofield"

\* controller.abort(): every wait on its signal ends
AbortWaits(rec, ctrl, ab, ph) ==
  IF ctrl # "none" /\ Interrupted(rec, ctrl)
    THEN IF rec.pc = "inflight"
           THEN OnFnError([rec EXCEPT !.cancelHit = TRUE], AbortedFetch(ph), Retries, ab)
           ELSE [rec EXCEPT !.pc = "catch", !.err = "abort", !.cancelHit = TRUE]
    ELSE rec

\* the AbortError test inverted
CatchLogInverted(e) ==
  IF e # "abort" THEN <<"warn", "Translate canceled.">> ELSE <<"error", e>>

\* e?.name === 'AbortError' ? warn : error
CatchLog(e) ==
  IF e = "abort" THEN <<"warn", "Translate canceled.">> ELSE <<"error", e>>

CatchOutcome(e) == IF e = "abort" THEN "canceled" ELSE "failed"

\* the invocations of translateScope are named in the order they are made
Earlier(q, r) == q = "A" /\ r = "B"

\* if (fileId === get().currentFileId) set({ dialogs: refreshed })
Refreshed == IF CurrentFile \in files THEN dialogs ELSE stateDialogs

\* the list left as it is after an edit
PatchNothing(m, i, text) == m

\* get().dialogs.map(d => d.id === dialogId ? { ...d, translated } : d)
PatchDialogs(m, i, text) == [m EXCEPT ![i] = IF @ = Absent THEN @ ELSE text]

\* translateScope up to its first log line
Start(r, sc) ==
  /\ run[r].pc = "idle"
  /\ \A q \in Runs : Earlier(q, r) => run[q].pc # "idle"
  /\ \E ph \in AbortPhases :
     LET c == Candidates(sc)
         ab == IF activeAbort = "none" THEN aborted ELSE aborted \cup {activeAbort}
     IN IF c = <<>>
          THEN /\ run' = [run EXCEPT ![r].pc = "done", ![r].outcome = "noop", ![r].scope = sc]
               /\ UNCHANGED <<activeAbort, aborted, progress, logs>>
          ELSE /\ run' = [q \in Runs |->
                            IF q = r
                              THEN [run[q] EXCEPT !.pc = "prefill", !.scope = sc, !.cands0 = c]
                              ELSE LET w == AbortWaits(run[q], activeAbort, ab, ph) IN
                                   IF run[q].pc \notin {"idle", "done"} /\ run[q].supersededAt = -1
                                     THEN [w EXCEPT !.supersededAt = run[q].ncommit]
                                     ELSE w]
               /\ aborted' = ab
               /\ activeAbort' = r
               /\ progress' = [running |-> TRUE, total |-> Len(c), done |-> 0]
               /\ logs' = Append(logs, <<"info", "Translate started">>)
  /\ UNCHANGED <<rowFields, stateDialogs, files, others, op, call, hist, view, settings, keys, dialogs, tm>>

\* applyTMToCurrentFile('missing'): the reads
Prefill(r) ==
  /\ run[r].pc = "prefill"
  /\ LET tu == ToUpdate("missing") IN
     run' = [run EXCEPT ![r] =
               IF settings.tmEnabled /\ tu # {}
                 THEN [@ EXCEPT !.pc = "tmwrite", !.toUpdate = tu, !.tmRead = TRUE,
                                !.rowsRead = rowFields]
                 ELSE [@ EXCEPT !.pc = "recompute", !.tmRead = settings.tmEnabled]]
  /\ UNCHANGED <<rowFields, stateDialogs, files, others, op, call, hist, view, settings, keys, dialogs, tm, activeAbort, aborted, progress, logs>>

\* applyTMToCurrentFile('missing'): the transaction, then the log line
TmWrite(r) ==
  /\ run[r].pc = "tmwrite"
  /\ LET tu == run[r].toUpdate IN
     /\ dialogs' = [i \in Items |->
                      IF \E u \in tu : u[1] = i
                        THEN (CHOOSE u \in tu : u[1] = i)[2]
                        ELSE dialogs[i]]
     /\ tm' = [k \in TMKeys |->
                 IF tm[k] = NoEntry THEN tm[k]
                 ELSE [tm[k] EXCEPT !.useCount =
                         @ + Cardinality({u \in tu :
                               tmKey(settings.targetLang, dialogSourceKey(u[1])) = k})]]
  /\ hist' = [hist EXCEPT !.written =
                 [i \in Items |-> IF \E u \in run[r].toUpdate : u[1] = i
                                    THEN (CHOOSE u \in run[r].toUpdate : u[1] = i)[2]
                                    ELSE @[i]]]
  /\ logs' = Append(logs, <<"info", "TM filled">>)
  /\ rowFields' = [i \in Items |->
                     IF \E u \in run[r].toUpdate : u[1] = i
                       THEN PutFields(rowFields, i, run[r].rowsRead[i])[i]
                       ELSE rowFields[i]]
  /\ run' = [run EXCEPT ![r].pc = "recompute", ![r].toUpdate = {}, ![r].rowsRead = <<>>,
                        ![r].filled = {u[1] : u \in run[r].toUpdate}]
  /\ UNCHANGED <<stateDialogs, files, others, op, call, view, settings, keys, activeAbort, aborted, progress>>

\* candidates2, or the early return inside the try
Recompute(r) ==
  /\ run[r].pc = "recompute"
  /\ LET c2 == Candidates(run[r].scope) IN
     IF c2 = <<>>
       THEN /\ logs' = Append(logs, <<"info", "Nothing left to translate after TM.">>)
            /\ run' = [run EXCEPT ![r].pc = "finally", ![r].outcome = "completed"]
       ELSE /\ logs' = logs
            /\ run' = [run EXCEPT ![r].pc = "batch", ![r].cands = c2, ![r].start = 0]
  /\ stateDialogs' = IF run[r].filled # {} THEN Refreshed ELSE stateDialogs
  /\ UNCHANGED <<rowFields, files, others, op, call, hist, view, settings, keys, dialogs, tm, activeAbort, aborted, progress>>

\* the head of the batch loop, up to the first await of translateBatch
BatchHead(r) ==
  /\ run[r].pc = "batch"
  /\ IF run[r].start >= Len(run[r].cands)
       THEN /\ logs' = Append(logs, <<"info", "Translate finished.">>)
            /\ run' = [run EXCEPT ![r].pc = "finally", ![r].outcome = "completed"]
       ELSE /\ logs' = logs
            /\ run' = [run EXCEPT ![r] =
                         LET b == [@ EXCEPT !.batches = Append(@, Batch(run[r]))] IN
                         IF activeAbort = "none"
                           THEN [b EXCEPT !.pc = "catch", !.err = "typeerror"]
                           ELSE LET t == translateBatch([b EXCEPT !.signal = activeAbort], aborted)
                                IN IF t.pc = "inflight"
                                     THEN [t EXCEPT !.sent = @ \cup {Batch(t)[j] : j \in 1..Len(Batch(t))}]
                                     ELSE t]
  /\ UNCHANGED <<rowFields, stateDialogs, files, others, op, call, hist, view, settings, keys, dialogs, tm, activeAbort, aborted, progress>>

\* the provider answers the request in flight
Respond(r, env) ==
  /\ run[r].pc = "inflight"
  /\ LET n == Len(Batch(run[r])) IN
     \E resp \in Responses(n, env) :
       LET res == CASE settings.engine = "deepseek" -> DeepSeekRun(resp, n)
                    [] settings.engine = "deepl" -> DeepLRun(resp, n)
                    [] OTHER -> lingvaTranslateLine(resp)
       IN run' = [run EXCEPT ![r] =
                    IF ~res.ok
                      THEN OnFnError(@, res.e, Retries, aborted)
                      ELSE IF settings.engine = "lingva"
                        THEN LET o == @.out \o res.val IN
                             IF Len(o) >= n
                               THEN [@ EXCEPT !.pc = "commit", !.out = o]
                               ELSE withRetry([@ EXCEPT !.out = o], aborted)
                        ELSE [@ EXCEPT !.pc = "commit", !.out = res.val]]
  /\ UNCHANGED <<rowFields, stateDialogs, files, others, op, call, hist, view, settings, keys, dialogs, tm, activeAbort, aborted, progress, logs>>

\* the backoff timer fires: attempt++ and the next turn of the loop
Wake(r) ==
  /\ run[r].pc = "sleeping"
  /\ run' = [run EXCEPT ![r] =
               IF LoopContinues(@.attempt + 1, Retries)
                 THEN Attempt([@ EXCEPT !.attempt = @ + 1], aborted)
                 ELSE [@ EXCEPT !.attempt = @ + 1, !.pc = "catch", !.err = run[r].lastErr]]
  /\ UNCHANGED <<rowFields, stateDialogs, files, others, op, call, hist, view, settings, keys, dialogs, tm, activeAbort, aborted, progress, logs>>

\* only the first row that still holds a token is reported
WarnIdxsFirstOnly(batch, normalized) ==
  LET w == SeqFilter(batch, LAMBDA i :
             \E j \in 1..Len(batch) : batch[j] = i /\ checkPlaceholders(normalized[j]))
  IN IF w = <<>> THEN w ELSE <<Head(w)>>

\* if (checkPlaceholders(next)) warnIdxs.push(d.idx + 1)
WarnIdxs(batch, normalized) ==
  SeqFilter(batch, LAMBDA i :
    \E j \in 1..Len(batch) : batch[j] = i /\ checkPlaceholders(normalized[j]))

\* postprocess, then the batch transaction
Commit(r) ==
  /\ run[r].pc = "commit"
  /\ LET batch == Batch(run[r])
         normalized == postprocessTranslatedLines(batch, run[r].out)
         c == CommitBatch(batch, normalized, dialogs, tm, NormalLang)
     IN /\ dialogs' = c.d
        /\ tm' = c.t
        /\ hist' = Recorded(hist, batch, normalized, Len(batch))
        /\ run' = [run EXCEPT
                     ![r].pc = "progress",
                     ![r].errs = <<>>, ![r].nretry = 0, ![r].nsleep = 0,
                     ![r].ncommit = @ + 1,
                     ![r].warnIdxs = WarnIdxs(batch, normalized),
                     ![r].tmPut = @ \cup {batch[j] : j \in {x \in 1..Len(batch) :
                                        AutoAdd(normalized[x])}},
                     ![r].wrote = [i \in Items |->
                                     IF \E j \in 1..Len(batch) : batch[j] = i
                                       THEN c.d[i] ELSE @[i]]]
  /\ UNCHANGED <<rowFields, stateDialogs, files, others, op, call, view, settings, keys, activeAbort, aborted, progress, logs>>

\* the counter advanced by the configured size, whatever the slice held
DoneByBatchSize(rec) == rec.start + BatchSize

\* Math.min(candidates2.length, start + batch.length)
DoneAfter(rec) == Min(Len(rec.cands), rec.start + Len(Batch(rec)))

\* the warnings, the progress counter, start += batchSize
Progress(r) ==
  /\ run[r].pc = "progress"
  /\ logs' = logs \o [j \in 1..Len(run[r].warnIdxs) |->
                         <<"warn", "Placeholder still appears", run[r].warnIdxs[j]>>]
  /\ progress' = [running |-> TRUE, total |-> Len(run[r].cands), done |-> DoneAfter(run[r])]
  /\ run' = [run EXCEPT ![r].pc = "batch", ![r].start = @ + BatchSize,
                        ![r].out = <<>>, ![r].warnIdxs = <<>>]
  /\ stateDialogs' = Refreshed
  /\ UNCHANGED <<rowFields, files, others, op, call, hist, view, settings, keys, dialogs, tm, activeAbort, aborted>>

\* catch (e): one log line
Catch(r) ==
  /\ run[r].pc = "catch"
  /\ logs' = Append(logs, CatchLog(run[r].err))
  /\ run' = [run EXCEPT ![r].pc = "finally", ![r].outcome = CatchOutcome(run[r].err),
                        ![r].errs = <<>>, ![r].nretry = 0, ![r].nsleep = 0]
  /\ UNCHANGED <<rowFields, stateDialogs, files, others, op, call, hist, view, settings, keys, dialogs, tm, activeAbort, aborted, progress>>

\* the run ends without the reset of the progress counter
FinallyKeepsProgress(r) ==
  /\ run[r].pc = "finally"
  /\ activeAbort' = "none"
  /\ run' = [run EXCEPT ![r].pc = "done"]
  /\ UNCHANGED <<rowFields, stateDialogs, files, others, op, call, hist, view, settings, keys, dialogs, tm, aborted, logs, progress>>

\* finally
Finally(r) ==
  /\ run[r].pc = "finally"
  /\ progress' = IdleProgress
  /\ activeAbort' = "none"
  /\ run' = [run EXCEPT ![r].pc = "done"]
  /\ UNCHANGED <<rowFields, stateDialogs, files, others, op, call, hist, view, settings, keys, dialogs, tm, aborted, logs>>

\* activeAbort?.abort()
cancelTranslate ==
  /\ activeAbort # "none"
  /\ activeAbort \notin aborted
  /\ aborted' = aborted \cup {activeAbort}
  /\ \E ph \in AbortPhases :
       run' = [q \in Runs |-> AbortWaits(run[q], activeAbort, aborted', ph)]
  /\ UNCHANGED <<rowFields, stateDialogs, files, others, op, call, hist, view, settings, keys, dialogs, tm, activeAbort, progress, logs>>

Step(r, env) ==
  \/ \E sc \in env.scopes : Start(r, sc)
  \/ Prefill(r)
  \/ TmWrite(r)
  \/ Recompute(r)
  \/ BatchHead(r)
  \/ Respond(r, env)
  \/ Wake(r)
  \/ Commit(r)
  \/ Progress(r)
  \/ Catch(r)
  \/ Finally(r)

\* two runs may be started on the file
DuoSetups == {s \in Setups : s.engine = "deepseek" /\ s.key = <<"sk">>}
DuoEnv == [lines |-> {<<"hi">>}, failures |-> {"http"}, scopes |-> {"all", "missing"}]
Init == InitWith(DuoSetups, {PlainView}, SmallBatchSizes) /\ settings.tmEnabled /\ settings.tmAutoAdd /\ tm = [k \in TMKeys |-> NoEntry]
Next == \E r \in Runs : Step(r, DuoEnv)
Spec == Init /\ [][Next]_vars

\* a single run and cancelTranslate
InitSolo == InitWith(Setups, {PlainView}, SmallBatchSizes)
SoloEnv == [lines |-> ProviderLines, failures |-> {"http", "nocontent", "notarray", "nofield"},
            scopes |-> {"all", "missing"}]
NextSolo == Step("A", SoloEnv) \/ cancelTranslate
SpecSolo == InitSolo /\ [][NextSolo]_vars

\* a single run on each engine whose steps are always taken in the end: the
\* event loop resumes the function after every await, every provider request
\* resolves or rejects, every backoff timer fires; cancelTranslate may never
\* come
LiveSetups ==
  {s \in Setups : /\ s.key \in {<<>>, <<"sk">>}
                  /\ s.targetLang = (IF s.engine = "deepl" THEN <<"es">> ELSE <<"vi">>)
                  /\ s.lingvaBaseUrl = <<"lunar">>}
LiveEnv == [lines |-> {<<"hi">>}, failures |-> {"http"}, scopes |-> {"missing"}]
InitLive == InitWith(LiveSetups, {PlainView}, SmallBatchSizes) /\ settings.tmAutoAdd
NextLive == Step("A", LiveEnv) \/ cancelTranslate
SpecLive == InitLive /\ [][NextLive]_vars /\ WF_vars(Step("A", LiveEnv))

\* a single run under every stored batch size
BatchEnv == [lines |-> {<<"hi">>}, failures |-> {"http"}, scopes |-> {"all", "missing"}]
InitBatch == InitWith(DuoSetups, {PlainView}, StoredBatchSizes)
NextBatch == Step("A", BatchEnv) \/ cancelTranslate
SpecBatch == InitBatch /\ [][NextBatch]_vars

\* ------------------------------------------------------ manual edits
MaxEdits == 1
EditTexts == {<<"ed">>}

\* updateTranslation(dialogId, text) up to its transaction: the row is read,
\* if (!row) return
updateTranslation(i, text) ==
  /\ hist.nedits < MaxEdits
  /\ op.pc = "idle"
  /\ dialogs[i] # Absent
  /\ op' = [pc |-> "put", i |-> i, text |-> text, row |-> rowFields[i]]
  /\ hist' = [hist EXCEPT !.nedits = @ + 1]
  /\ UNCHANGED <<rowFields, stateDialogs, files, others, call, view, settings, keys, dialogs, tm, activeAbort, aborted,
                 progress, logs, run>>

\* the transaction of updateTranslation: db.dialogs.put(row) of the row read
\* before, and its TM entry
updateTranslationPut ==
  /\ op.pc = "put"
  /\ dialogs' = PutRow(dialogs, op.i, op.text)
  /\ tm' = UpsertTM(tm, op.i, op.text, NormalLang)
  /\ hist' = [hist EXCEPT !.written[op.i] = op.text,
                 !.stored[tmKey(settings.targetLang, dialogSourceKey(op.i))] = op.text,
                 !.storedText[tmKey(settings.targetLang, dialogSourceKey(op.i))] =
                    IF Trim(op.text) # <<>> THEN op.text ELSE @]
  /\ op' = IdleOp
  /\ stateDialogs' = PatchDialogs(stateDialogs, op.i, op.text)
  /\ rowFields' = PutFields(rowFields, op.i, op.row)
  /\ UNCHANGED <<files, others, call, view, settings, keys, activeAbort, aborted, progress,
                 logs, run>>

\* the update lists tried: two rows that share a source key, two that do not
BulkUpdates ==
  {<<<<1, <<"ed">>>>, <<NItems, <<"b">>>>>>, <<<<2, <<"b">>>>, <<1, <<" ">>>>>>}

\* bulkUpdateTranslations(updates): every row and TM entry, one transaction
bulkUpdateTranslations(updates) ==
  /\ hist.nedits < MaxEdits
  /\ files # {}
  /\ LET ids == [j \in 1..Len(updates) |-> updates[j][1]]
         texts == [j \in 1..Len(updates) |-> updates[j][2]]
         c == CommitBatch(ids, texts, dialogs, tm, StoredLang)
     IN /\ dialogs' = c.d
        /\ tm' = c.t
        /\ hist' = [Recorded(hist, ids, texts, Len(ids)) EXCEPT !.nedits = @ + 1]
        /\ stateDialogs' = c.d
  /\ UNCHANGED <<rowFields, files, others, op, call, view, settings, keys, activeAbort, aborted, progress, logs, run>>

\* a single run, with manual edits at any time
EditSetups ==
  {[engine |-> "deepseek", key |-> <<"sk">>, targetLang |-> l, lingvaBaseUrl |-> <<"lunar">>] :
     l \in {<<"vi">>, <<"VI", " ">>}}
EditViews == {PlainView, [filter |-> "two", selected |-> {2, 3}, showUntranslatedOnly |-> FALSE]}
EditEnv == [lines |-> {<<"PH0">>}, failures |-> {}, scopes |-> Scopes]
InitEdit == InitWith(EditSetups, EditViews, SmallBatchSizes)
NextEdit ==
  \/ Step("A", EditEnv)
  \/ \E i \in Items, t \in EditTexts : updateTranslation(i, t)
  \/ updateTranslationPut
  \/ \E u \in BulkUpdates : bulkUpdateTranslations(u)
SpecEdit == InitEdit /\ [][NextEdit]_vars

\* ------------------------------------------------------ project reset
\* resetProject: the files of the project, their rows and the logs deleted in
\* one transaction, then the view cleared
\* a reset that empties the TM with the rows
resetProjectWithTM ==
  /\ files # {}
  /\ files' = {}
  /\ dialogs' = [i \in Items |-> Absent]
  /\ stateDialogs' = [i \in Items |-> Absent]
  /\ rowFields' = [i \in Items |-> NoRow]
  /\ others' = {}
  /\ logs' = <<>>
  /\ view' = [view EXCEPT !.filter = "", !.selected = {}]
  /\ tm' = [k \in TMKeys |-> NoEntry]
  /\ UNCHANGED <<settings, keys, activeAbort, aborted, progress, hist, run, op, call>>

resetProject ==
  /\ files # {}
  /\ files' = {}
  /\ dialogs' = [i \in Items |-> Absent]
  /\ stateDialogs' = [i \in Items |-> Absent]
  /\ rowFields' = [i \in Items |-> NoRow]
  /\ others' = {}
  /\ logs' = <<>>
  /\ view' = [view EXCEPT !.filter = "", !.selected = {}]
  /\ UNCHANGED <<settings, keys, tm, activeAbort, aborted, progress, hist, run, op, call>>

\* a run of each scope over rows that a manual edit may have translated,
\* under the views the checkbox (setShowUntranslatedOnly) and the selection
\* can leave behind
ScopeViews ==
  {PlainView,
   [filter |-> "", selected |-> {2, 3}, showUntranslatedOnly |-> FALSE],
   [filter |-> "", selected |-> {1, 2}, showUntranslatedOnly |-> TRUE]}
ScopeEnv == [lines |-> {<<"hi">>}, failures |-> {}, scopes |-> {"all", "selected", "missing"}]
InitScope == InitWith(DuoSetups, ScopeViews, SmallBatchSizes)
NextScope ==
  \/ Step("A", ScopeEnv)
  \/ \E i \in Items, t \in EditTexts : updateTranslation(i, t)
  \/ updateTranslationPut
SpecScope == InitScope /\ [][NextScope]_vars

\* a single run and manual edits, with a reset of the project at any time
ResetEnv == [lines |-> {<<"hi">>}, failures |-> {}, scopes |-> {"missing"}]
InitReset == InitWith(DuoSetups, {PlainView}, SmallBatchSizes)
NextReset ==
  \/ Step("A", ResetEnv)
  \/ \E i \in Items, t \in EditTexts : updateTranslation(i, t)
  \/ updateTranslationPut
  \/ \E u \in BulkUpdates : bulkUpdateTranslations(u)
  \/ resetProject
SpecReset == InitReset /\ [][NextReset]_vars

\* -------------------------------------------------------- file import
MaxDialogs == 2

\* what uid('file') may return: an id in use is not excluded
FileIds == {"X", "Y", "Z"}


\* the positions numbered from 1
ImportIdxsFromOne(n) == 1..n

\* extracted.map((d, idx) => ...): the positions of an array of n items
ImportIdxs(n) == 0..(n - 1)

\* the rows built for a file of n dialogues, the TM hits filled in
ImportRows(fileId, n) ==
  {[id |-> RowId(fileId, idx), fileId |-> fileId, idx |-> idx,
    translated |->
      LET h == tm[tmKey(settings.targetLang, dialogSourceKey(idx + 1))].translatedText IN
      IF settings.tmEnabled /\ Truthy(h) THEN h ELSE null] : idx \in ImportIdxs(n)}

\* the primary keys db.dialogs holds
DialogIds ==
  {RowId(CurrentFile.id, i - 1) : i \in Items} \cup {r.id : r \in others}

\* importLocalFiles for one .rpy file, up to the transaction: the text is
\* read, n dialogues are extracted, the file id is drawn
importLocalFiles(fileId, n) ==
  /\ op.pc = "idle"
  /\ op' = [pc |-> "addfile", fileId |-> fileId, n |-> n]
  /\ UNCHANGED <<rowFields, stateDialogs, settings, keys, dialogs, tm, activeAbort, aborted, progress, logs, view,
                 hist, run, files, others, call>>

\* db.files.add(fileRow) inside the transaction: the row is written for the
\* transaction only; add rejects a primary key in use and the transaction
\* is aborted
ImportAddFile ==
  /\ op.pc = "addfile"
  /\ op' = IF \E f \in files : f.id = op.fileId
             THEN IdleOp
             ELSE [op EXCEPT !.pc = "addrows"]
  /\ UNCHANGED <<rowFields, stateDialogs, settings, keys, dialogs, tm, activeAbort, aborted, progress, logs, view,
                 hist, run, files, others, call>>

\* db.dialogs.bulkAdd(rows) and the end of the transaction: both tables are
\* written, or, a row id being in use, neither
ImportAddRows ==
  /\ op.pc = "addrows"
  /\ LET rows == ImportRows(op.fileId, op.n) IN
     IF \E r \in rows : r.id \in DialogIds
       THEN UNCHANGED <<rowFields, stateDialogs, files, others>>
       ELSE /\ files' = files \cup {[id |-> op.fileId, dialogCount |-> op.n]}
            /\ others' = others \cup rows
  /\ op' = IdleOp
  /\ UNCHANGED <<rowFields, stateDialogs, settings, keys, dialogs, tm, activeAbort, aborted, progress, logs, view,
                 hist, run, call>>

InitImport == InitWith(DuoSetups, {PlainView}, {StoredBatchSize(1)})
NextImport ==
  \/ \E id \in FileIds, n \in 0..MaxDialogs : importLocalFiles(id, n)
  \/ ImportAddFile
  \/ ImportAddRows
SpecImport == InitImport /\ [][NextImport]_vars

\* --------------------------------------------------------- TM import
MaxEntries == 2

\* the entries an imported TM file may list
TMFileEntries ==
  [targetLang : {<<"vi">>, <<"VI", " ">>, <<" ">>},
   sourceKey : {<<"k1">>, <<"k2", " ">>, <<>>},
   translatedText : {<<"t1">>, <<"t2">>, <<" ">>}]

TMFiles == UNION {[1..n -> TMFileEntries] : n \in 0..MaxEntries}

\* an entry whose text is only tested for being empty
ImportKeepsBlankText(e) ==
  /\ Lower(Trim(e.targetLang)) # <<>>
  /\ Trim(e.sourceKey) # <<>>
  /\ e.translatedText # <<>>

\* !(!targetLang || !sourceKey || !translatedText.trim()), targetLang and
\* sourceKey being the trimmed values
ImportKeeps(e) ==
  /\ Lower(Trim(e.targetLang)) # <<>>
  /\ Trim(e.sourceKey) # <<>>
  /\ Trim(e.translatedText) # <<>>

\* the loop over entries: the rows pushed to normalized
NormalizedEntries(entries) ==
  LET F[k \in 0..Len(entries)] ==
        IF k = 0 THEN <<>>
        ELSE IF ImportKeeps(entries[k])
          THEN Append(F[k - 1], [key |-> tmKey(Lower(Trim(entries[k].targetLang)),
                                               Trim(entries[k].sourceKey)),
                                 targetLang |-> Lower(Trim(entries[k].targetLang)),
                                 sourceKey |-> Trim(entries[k].sourceKey),
                                 translatedText |-> entries[k].translatedText])
          ELSE F[k - 1]
  IN F[Len(entries)]

\* db.tm.bulkPut(normalized): rows 1..j put in order
RECURSIVE BulkPutTM(_, _, _)
BulkPutTM(t, normalized, j) ==
  IF j = 0 THEN t
  ELSE [BulkPutTM(t, normalized, j - 1) EXCEPT
          ![normalized[j].key] = [translatedText |-> normalized[j].translatedText,
                                  useCount |-> 0,
                                  targetLang |-> normalized[j].targetLang,
                                  sourceKey |-> normalized[j].sourceKey]]

\* importTM(files) up to the bulkPut: the file read, parsed and normalized
importTM(entries) ==
  /\ op.pc = "idle"
  /\ op' = [pc |-> "tmput", entries |-> entries, normalized |-> NormalizedEntries(entries)]
  /\ UNCHANGED <<rowFields, stateDialogs, settings, keys, dialogs, tm, activeAbort, aborted, progress, logs, view,
                 hist, run, files, others, call>>

\* if (normalized.length) await db.tm.bulkPut(normalized)
importTMPut ==
  /\ op.pc = "tmput"
  /\ tm' = BulkPutTM(tm, op.normalized, Len(op.normalized))
  /\ op' = [op EXCEPT !.pc = "tmdone"]
  /\ UNCHANGED <<rowFields, stateDialogs, settings, keys, dialogs, activeAbort, aborted, progress, logs, view,
                 hist, run, files, others, call>>

InitImportTM == InitWith(DuoSetups, {PlainView}, {StoredBatchSize(1)})
NextImportTM == (\E es \in TMFiles : importTM(es)) \/ importTMPut
SpecImportTM == InitImportTM /\ [][NextImportTM]_vars

\* deleteTM(key): db.tm.delete(key.trim())
deleteTM(k) ==
  /\ tm' = [tm EXCEPT ![k] = NoEntry]
  /\ UNCHANGED <<rowFields, stateDialogs, settings, keys, dialogs, activeAbort, aborted, progress, logs, view,
                 hist, run, files, others, op, call>>

\* clearTM(): db.tm.clear()
clearTM ==
  /\ tm' = [k \in TMKeys |-> NoEntry]
  /\ UNCHANGED <<rowFields, stateDialogs, settings, keys, dialogs, activeAbort, aborted, progress, logs, view,
                 hist, run, files, others, op, call>>

\* the TM files imported next to a run and edits: a blank text alone, and an
\* entry that is kept followed by a blank text
StoreTMFiles ==
  {<<[targetLang |-> <<"VI", " ">>, sourceKey |-> <<"k2", " ">>, translatedText |-> <<" ">>]>>,
   <<[targetLang |-> <<"vi">>, sourceKey |-> <<"k2", " ">>, translatedText |-> <<"t2">>],
     [targetLang |-> <<"vi">>, sourceKey |-> <<"k1">>, translatedText |-> <<" ">>]>>}

\* every operation on the store: a run, manual and bulk edits, TM import,
\* deletion and clearing, and the reset of the project
StoreEnv == [lines |-> {<<"hi">>}, failures |-> {}, scopes |-> {"missing"}]
InitStore ==
  /\ InitWith(DuoSetups, {PlainView}, {StoredBatchSize(MaxBatch)})
  /\ settings.tmEnabled /\ settings.tmAutoAdd
  /\ tm = [k \in TMKeys |-> NoEntry]
NextStore ==
  \/ Step("A", StoreEnv)
  \/ \E i \in Items, t \in EditTexts : updateTranslation(i, t)
  \/ updateTranslationPut
  \/ \E u \in BulkUpdates : bulkUpdateTranslations(u)
  \/ \E es \in StoreTMFiles : importTM(es)
  \/ importTMPut
  \/ \E k \in TMKeys : deleteTM(k)
  \/ clearTM
  \/ resetProject
SpecStore == InitStore /\ [][NextStore]_vars

\* the same operations with a provider that answers blank lines
BlankEnv == [lines |-> {<<" ">>}, failures |-> {}, scopes |-> {"missing"}]
InitBlank == InitStore
NextBlank ==
  \/ Step("A", BlankEnv)
  \/ \E i \in Items, t \in EditTexts : updateTranslation(i, t)
  \/ updateTranslationPut
  \/ \E u \in BulkUpdates : bulkUpdateTranslations(u)
  \/ \E es \in StoreTMFiles : importTM(es)
  \/ importTMPut
  \/ \E k \in TMKeys : deleteTM(k)
  \/ clearTM
  \/ resetProject
SpecBlank == InitBlank /\ [][NextBlank]_vars

\* ------------------------------------------------- translator.js: tags
MaxPieces == 3
ManyTags == 11

\* a text is a sequence of characters; "__TAG_" and "__" stand for the
\* character runs of that spelling
Pieces ==
  {<<"a">>, <<"[">>, <<"]">>, <<"[", "b", "]">>, <<"[", "$", "$", "]">>,
   <<"[", "$", "&", "]">>, <<"[", "__TAG_", "1", "__", "]">>}

RECURSIVE Concat(_)
Concat(ss) == IF ss = <<>> THEN <<>> ELSE Head(ss) \o Concat(Tail(ss))

TagTexts ==
  {Concat(ps) : ps \in UNION {[1..n -> Pieces] : n \in 0..MaxPieces}}
    \cup {Concat([j \in 1..ManyTags |-> <<"[", "b", "]">>])}

\* `__TAG_${placeholders.length}__`
TagKey(n) == <<"__TAG_">> \o Digits(n) \o <<"__">>

\* where the match of \[[^\]]+\] that starts at p ends, 0 when there is none
TagEnd(t, p) ==
  LET ends == {q \in (p + 2)..Len(t) : t[q] = "]"} IN
  IF t[p] = "[" /\ p + 1 <= Len(t) /\ t[p + 1] # "]" /\ ends # {}
    THEN CHOOSE q \in ends : \A x \in ends : q <= x
    ELSE 0

\* text.replace(/(\[[^\]]+\]|...)/g, (match) => key), from position p on
RECURSIVE ProtectFrom(_, _, _, _)
ProtectFrom(t, p, out, phs) ==
  IF p > Len(t) THEN [protectedText |-> out, placeholders |-> phs]
  ELSE LET e == TagEnd(t, p)
           key == TagKey(Len(phs))
       IN IF e # 0
            THEN ProtectFrom(t, e + 1, out \o key,
                             Append(phs, [key |-> key, value |-> SubSeq(t, p, e)]))
            ELSE ProtectFrom(t, p + 1, Append(out, t[p]), phs)

protectTags(text) == ProtectFrom(text, 1, <<>>, <<>>)

\* a replacement string: $$ inserts "$", $& inserts the matched text
RECURSIVE Expand(_, _)
Expand(v, matched) ==
  IF v = <<>> THEN <<>>
  ELSE IF Len(v) >= 2 /\ v[1] = "$" /\ v[2] = "$"
    THEN <<"$">> \o Expand(SubSeq(v, 3, Len(v)), matched)
  ELSE IF Len(v) >= 2 /\ v[1] = "$" /\ v[2] = "&"
    THEN matched \o Expand(SubSeq(v, 3, Len(v)), matched)
  ELSE <<v[1]>> \o Expand(Tail(v), matched)

\* s.replace(new RegExp(key, "g"), value), from position p on
RECURSIVE ReplaceAll(_, _, _, _)
ReplaceAll(s, p, key, value) ==
  IF p > Len(s) THEN <<>>
  ELSE IF p + Len(key) - 1 <= Len(s) /\ SubSeq(s, p, p + Len(key) - 1) = key
    THEN Expand(value, key) \o ReplaceAll(s, p + Len(key), key, value)
    ELSE <<s[p]>> \o ReplaceAll(s, p + 1, key, value)

\* the loop of restoreTags over placeholders 1..j
RECURSIVE RestoreUpTo(_, _, _)
RestoreUpTo(translatedText, placeholders, j) ==
  IF j = 0 THEN translatedText
  ELSE ReplaceAll(RestoreUpTo(translatedText, placeholders, j - 1), 1,
                  placeholders[j].key, placeholders[j].value)

restoreTags(translatedText, placeholders) ==
  RestoreUpTo(translatedText, placeholders, Len(placeholders))

\* the app is at rest while translator.js or a relay handler is called
Quiet ==
  /\ InitApp(DuoSetups, {PlainView}, {StoredBatchSize(1)})
  /\ settings.tmEnabled /\ settings.tmAutoAdd
  /\ tm = [k \in TMKeys |-> NoEntry]

Protect ==
  /\ call.pc = "protect"
  /\ LET m == protectTags(call.text) IN
     call' = [call EXCEPT !.pc = "restore", !.protectedText = m.protectedText,
                          !.placeholders = m.placeholders]
  /\ UNCHANGED <<rowFields, stateDialogs, settings, keys, dialogs, tm, activeAbort, aborted, progress, logs, view,
                 hist, run, files, others, op>>

\* the text comes back from the translator as it was sent
Restore ==
  /\ call.pc = "restore"
  /\ call' = [call EXCEPT !.pc = "restored",
                          !.restored = restoreTags(call.protectedText, call.placeholders)]
  /\ UNCHANGED <<rowFields, stateDialogs, settings, keys, dialogs, tm, activeAbort, aborted, progress, logs, view,
                 hist, run, files, others, op>>

InitTags ==
  /\ Quiet
  /\ \E t \in TagTexts :
       call = [pc |-> "protect", text |-> t, protectedText |-> <<>>,
               placeholders |-> <<>>, restored |-> <<>>]
NextTags == Protect \/ Restore
SpecTags == InitTags /\ [][NextTags]_vars

\* ------------------------------------------------ translator.js: merge
\* the pieces a .rpy source is put together from
SourcePieces ==
  {<<"a">>, <<"\"">>, <<"\n">>, <<"\"", "a", "\"">>, <<"\"", "b", "$", "$", "\"">>,
   <<"\"", "$", "&", "\"">>}

Sources == {Concat(ps) : ps \in UNION {[1..n -> SourcePieces] : n \in 0..MaxPieces}}

\* where the match of "([^"]+)" that starts at p ends, 0 when there is none
QuoteEnd(t, p) ==
  LET ends == {q \in (p + 2)..Len(t) : t[q] = "\""} IN
  IF t[p] = "\"" /\ p + 1 <= Len(t) /\ t[p + 1] # "\"" /\ ends # {}
    THEN CHOOSE q \in ends : \A x \in ends : q <= x
    ELSE 0

\* raw.match(/"([^"]+)"/g) with the quotes taken off, from position p on
RECURSIVE ExtractFrom(_, _)
ExtractFrom(raw, p) ==
  IF p > Len(raw) THEN <<>>
  ELSE LET e == QuoteEnd(raw, p) IN
       IF e # 0 THEN <<SubSeq(raw, p + 1, e - 1)>> \o ExtractFrom(raw, e + 1)
       ELSE ExtractFrom(raw, p + 1)

extractTexts(raw) == ExtractFrom(raw, 1)

\* Object.fromEntries(slice.map(s => [s, s])): one entry per key, in the
\* order the keys first come
RECURSIVE Entries(_)
Entries(texts) ==
  IF texts = <<>> THEN <<>>
  ELSE LET front == Entries(SubSeq(texts, 1, Len(texts) - 1))
           last == texts[Len(texts)]
       IN IF \E j \in 1..Len(front) : front[j].orig = last
            THEN front
            ELSE Append(front, [orig |-> last, trans |-> last])

\* the loop of mergeBack over entries 1..j of translatedObj
RECURSIVE MergeUpTo(_, _, _)
MergeUpTo(raw, entries, j) ==
  IF j = 0 THEN raw
  ELSE LET prev == MergeUpTo(raw, entries, j - 1)
           e == entries[j]
       IN IF e.trans = <<>> THEN prev
          ELSE ReplaceAll(prev, 1, <<"\"">> \o e.orig \o <<"\"">>,
                          <<"\"">> \o e.trans \o <<"\"">>)

mergeBack(raw, translatedObj) == MergeUpTo(raw, translatedObj, Len(translatedObj))

Extract ==
  /\ call.pc = "extract"
  /\ call' = [call EXCEPT !.pc = "merge", !.translatedObj = Entries(extractTexts(call.raw))]
  /\ UNCHANGED <<rowFields, stateDialogs, settings, keys, dialogs, tm, activeAbort, aborted, progress, logs, view,
                 hist, run, files, others, op>>

Merge ==
  /\ call.pc = "merge"
  /\ call' = [call EXCEPT !.pc = "merged", !.merged = mergeBack(call.raw, call.translatedObj)]
  /\ UNCHANGED <<rowFields, stateDialogs, settings, keys, dialogs, tm, activeAbort, aborted, progress, logs, view,
                 hist, run, files, others, op>>

InitMerge ==
  /\ Quiet
  /\ \E raw \in Sources :
       call = [pc |-> "extract", raw |-> raw, translatedObj |-> <<>>, merged |-> <<>>]
NextMerge == Extract \/ Merge
SpecMerge == InitMerge /\ [][NextMerge]_vars

\* ----------------------------------------------------- relay handlers
Handlers == {"deepl-trans", "deepseek-proxy"}
Methods == {"OPTIONS", "POST", "GET"}

\* what body.apiKey, body.text and body.target_lang may hold
BodyObjects ==
  {[apiKey |-> k, text |-> t, target_lang |-> l] :
     k \in ApiKeys, t \in {<<>>, <<"hi">>}, l \in {<<>>, <<"es">>}}

\* req.body: absent, an object, or a string, which is the JSON text of an
\* object or of null, or is not JSON
Bodies ==
  {[kind |-> "none", json |-> "none", obj |-> [apiKey |-> <<>>, text |-> <<>>, target_lang |-> <<>>]]}
    \cup {[kind |-> "object", json |-> "none", obj |-> o] : o \in BodyObjects}
    \cup {[kind |-> "string", json |-> "object", obj |-> o] : o \in BodyObjects}
    \cup {[kind |-> "string", json |-> j, obj |-> [apiKey |-> <<>>, text |-> <<>>, target_lang |-> <<>>]] :
            j \in {"null", "malformed"}}

\* typeof req.body === 'string' ? JSON.parse(req.body) : (req.body || {}),
\* then the read of body.apiKey: JSON.parse throws on text that is not JSON,
\* the read throws on null
ParseBody(b) ==
  IF b.kind = "string" /\ b.json \in {"null", "malformed"}
    THEN [threw |-> TRUE, obj |-> b.obj]
    ELSE [threw |-> FALSE, obj |-> b.obj]

\* the checks of a POST before the upstream fetch: the status answered, or 0
\* when the request goes upstream
Precheck(h, b) ==
  LET parsed == ParseBody(b) IN
  IF parsed.threw THEN 500
  ELSE IF Trim(parsed.obj.apiKey) = <<>> THEN 400
  ELSE IF h = "deepl-trans" /\ parsed.obj.text = <<>> THEN 400
  ELSE IF h = "deepl-trans" /\ Trim(parsed.obj.target_lang) = <<>> THEN 400
  ELSE 0

\* handler(req, res) up to its answer or to the upstream fetch
Handle ==
  /\ call.pc = "request"
  /\ call' =
       IF call.method = "OPTIONS"
         THEN [call EXCEPT !.pc = "answered", !.status = 204, !.cors = TRUE]
       ELSE IF call.method # "POST"
         THEN [call EXCEPT !.pc = "answered", !.status = 405]
       ELSE LET st == Precheck(call.handler, call.body) IN
            IF st # 0
              THEN [call EXCEPT !.pc = "answered", !.status = st]
              ELSE [call EXCEPT !.pc = "upstream", !.nupstream = @ + 1]
  /\ UNCHANGED <<rowFields, stateDialogs, settings, keys, dialogs, tm, activeAbort, aborted, progress, logs, view,
                 hist, run, files, others, op>>

\* the vendor answers, or the fetch rejects
Upstream ==
  /\ call.pc = "upstream"
  /\ \E st \in {200, 403, 500} :
       call' = [call EXCEPT !.pc = "answered", !.status = st, !.cors = (st # 500)]
  /\ UNCHANGED <<rowFields, stateDialogs, settings, keys, dialogs, tm, activeAbort, aborted, progress, logs, view,
                 hist, run, files, others, op>>

InitRelay ==
  /\ Quiet
  /\ \E h \in Handlers, m \in Methods, b \in Bodies :
       call = [pc |-> "request", handler |-> h, method |-> m, body |-> b,
               status |-> 0, cors |-> FALSE, nupstream |-> 0]
NextRelay == Handle \/ Upstream
SpecRelay == InitRelay /\ [][NextRelay]_vars

\* ------------------------------------------------------------ claims
ProviderErrors == {"http", "nocontent", "notarray", "nofield", "mismatch"}

Other(r) == IF r = "A" THEN "B" ELSE "A"

\* C1: run A has committed its batch 1 and is then cancelled by the start of
\* run B on the same file.  Once both have ended, B has run to completion
\* (unless its own provider failed), A has committed nothing after its batch
\* 1, and every row B translated holds B's result.
C1_CancellationNonCorruption ==
  \A a \in Runs :
    LET b == Other(a) IN
    (run[a].supersededAt = 1 /\ run[a].pc = "done" /\ run[b].pc = "done")
      => /\ run[b].outcome = "completed"
              \/ (run[b].outcome = "failed" /\ run[b].err \in ProviderErrors)
         /\ run[a].ncommit = 1
         /\ run[b].outcome = "completed"
              => \A i \in Items : run[b].wrote[i] # null => dialogs[i] = run[b].wrote[i]

\* C2: once a new run has begun, the run it superseded issues no further
\* provider request, and commits no batch except the one whose provider
\* call had already returned when the new run began.
C2_SupersededRunStops ==
  [][\A a \in Runs :
       run[a].supersededAt # -1
         => /\ run'[a].nreq = run[a].nreq
            /\ run'[a].pc = "commit" => run[a].pc = "commit"]_vars

\* the run failed in the provider call of the batch at rec.start
FailedAtBatch(rec) == rec.pc \in {"catch", "finally", "done"} /\ rec.err \in ProviderErrors

C3_State ==
  \A r \in Runs :
    LET rec == run[r] IN
    FailedAtBatch(rec) =>
      /\ rec.calls = Retries + 1
      /\ rec.err = rec.lastErr
      /\ rec.pc \in {"finally", "done"}
           => rec.outcome = "failed" /\ logs[Len(logs)] = <<"error", rec.lastErr>>
      /\ rec.ncommit * BatchSize = rec.start
      /\ \A j \in 1..Len(rec.cands) :
           IF j <= rec.start
             THEN rec.wrote[rec.cands[j]] # null /\ dialogs[rec.cands[j]] = rec.wrote[rec.cands[j]]
             ELSE rec.wrote[rec.cands[j]] = null /\ rec.cands[j] \notin rec.tmPut

\* C3: when the provider call of batch k has failed after its last retry, the
\* run ends as failed and logs the error of the last attempt; the run has
\* committed exactly the batches before k, their rows hold what was committed,
\* no row of batch k or of a later batch was written to the rows or the TM,
\* and from then on the run sends no request and nothing is persisted.
C3_FailedBatchLeavesEarlierBatches ==
  [][/\ C3_State'
     /\ \A r \in Runs :
          FailedAtBatch(run[r])
            => run'[r].nreq = run[r].nreq /\ dialogs' = dialogs /\ tm' = tm]_vars

C3_Witness ==
  \E r \in Runs :
    /\ FailedAtBatch(run[r]) /\ run[r].pc = "done"
    /\ run[r].ncommit >= 1
    /\ run[r].lastErr = "mismatch"
    /\ \E i \in Items : run[r].wrote[i] = <<"hi">> /\ dialogs[i] = <<"hi">>

\* the last row of the batch, from j on, that upserts the TM key of row j
LastPutFor(batch, normalized, j) ==
  CHOOSE x \in j..Len(batch) :
    /\ dialogSourceKey(batch[x]) = dialogSourceKey(batch[j]) /\ AutoAdd(normalized[x])
    /\ \A y \in (x + 1)..Len(batch) :
         ~(dialogSourceKey(batch[y]) = dialogSourceKey(batch[j]) /\ AutoAdd(normalized[y]))

\* after the transaction of run r's batch: every row and every TM upsert of it
BatchPresent(r) ==
  LET batch == Batch(run[r])
      normalized == postprocessTranslatedLines(batch, run[r].out)
      inBatch == {batch[j] : j \in 1..Len(batch)}
      putKeys == {tmKey(settings.targetLang, dialogSourceKey(batch[j])) :
                    j \in {x \in 1..Len(batch) : AutoAdd(normalized[x])}}
  IN /\ \A j \in 1..Len(batch) :
          /\ dialogs'[batch[j]] = normalized[j]
          /\ AutoAdd(normalized[j])
               => tm'[tmKey(settings.targetLang, dialogSourceKey(batch[j]))].translatedText
                    = normalized[LastPutFor(batch, normalized, j)]
     /\ \A i \in Items \ inBatch : dialogs'[i] = dialogs[i]
     /\ \A k \in TMKeys \ putKeys : tm'[k] = tm[k]

\* after the TM pre-fill transaction of run r: every row it was to overwrite
PrefillPresent(r) ==
  /\ \A u \in run[r].toUpdate : dialogs'[u[1]] = u[2]
  /\ \A i \in Items \ {u[1] : u \in run[r].toUpdate} : dialogs'[i] = dialogs[i]
  /\ \A k \in TMKeys : tm'[k].translatedText = tm[k].translatedText

\* C4: the rows and the TM change only in a transaction of a run: the batch
\* transaction, after which every row of the batch holds its translation and
\* every TM upsert of the batch is in the TM (the last one per key) while
\* nothing else has changed, or the TM pre-fill transaction.  No step leaves
\* a part of a batch behind.
C4_BatchAtomicity ==
  [][/\ \A r \in Runs :
          (run[r].pc = "commit" /\ run'[r].pc # "commit") => BatchPresent(r)
     /\ (dialogs' # dialogs \/ tm' # tm)
          => \E r \in Runs :
               \/ run[r].pc = "commit" /\ run'[r].pc = "progress"
               \/ run[r].pc = "tmwrite" /\ run'[r].pc = "recompute" /\ PrefillPresent(r)]_vars

C4_Witness ==
  \E r \in Runs :
    /\ run[r].pc = "progress"
    /\ Len(Batch(run[r])) = 2
    /\ \A j \in 1..2 : dialogs[Batch(run[r])[j]] = run[r].out[j]
    /\ run[r].out = <<<<" ">>, <<"hi">>>>
    /\ run[r].tmPut # {}
    /\ \E k \in TMKeys : tm[k].translatedText = <<"hi">>

\* C5: once a response of the wrong length has been received for a batch, the
\* adapter neither waits to retry nor sends another request for that batch,
\* and the run ends as failed.
C5_MismatchIsNotRetried ==
  \A r \in Runs :
    run[r].lastErr = "mismatch"
      => /\ run[r].pc \notin {"sleeping", "inflight", "commit", "progress"}
         /\ run[r].pc \in {"finally", "done"} => run[r].outcome \in {"failed", "canceled"}

\* C6: whenever translateBatch has returned, for any engine, the array it
\* returned has exactly one line per row of the batch.
C6_ProviderLengthContract ==
  \A r \in Runs :
    run[r].pc = "commit" => Len(run[r].out) = Len(Batch(run[r]))

C6_Witness ==
  \E r \in Runs :
    /\ run[r].pc = "commit"
    /\ run[r].lastErr = "mismatch"
    /\ Len(Batch(run[r])) = 2

BlankKey(k) == \A j \in 1..Len(k) : k[j] = " "

\* C7: with engine deepseek or deepl and an empty or whitespace-only key, a
\* run never sends a request, never enters the retry loop and commits no
\* batch; once it has reached its first batch it ends as failed with the
\* missing-key error.
C7_MissingKeyFailsOffline ==
  \A r \in Runs :
    (settings.engine \in {"deepseek", "deepl"} /\ BlankKey(EngineKey))
      => /\ run[r].nreq = 0 /\ run[r].calls = 0 /\ run[r].ncommit = 0
         /\ run[r].pc \notin {"inflight", "sleeping", "commit", "progress"}
         /\ run[r].lastErr = "none"
         /\ (run[r].pc \in {"finally", "done"} /\ run[r].cands # <<>>)
              => run[r].outcome = "failed" /\ run[r].err = "nokey"

C7_Witness ==
  \E r \in Runs :
    /\ keys.deepseekKey = <<" ">> /\ settings.engine = "deepseek"
    /\ run[r].pc = "done" /\ run[r].err = "nokey" /\ run[r].outcome = "failed"
    /\ "A" \in aborted

\* C8: one call of withRetry invokes its function at most retries + 1 times:
\* at most 2 requests per batch with deepseek and deepl, at most 4 per line
\* with lingva.
C8_RetriesBounded ==
  \A r \in Runs :
    /\ run[r].calls <= Retries + 1
    /\ settings.engine \in {"deepseek", "deepl"} => run[r].calls <= 2
    /\ settings.engine = "lingva" => run[r].calls <= 4

C8_Witness ==
  \E r \in Runs :
    /\ settings.engine = "lingva" /\ run[r].calls = 4 /\ run[r].pc = "inflight"
    /\ Len(run[r].out) = 1

\* C9: once the signal a retry loop was given has fired, the loop sends no
\* request again, and it is never left waiting in its backoff sleep.
C9_RetryStopsOnAbort ==
  [][\A r \in Runs :
       /\ run'[r].signal \in aborted => run'[r].nreq = run[r].nreq
       /\ run'[r].pc = "sleeping" => run'[r].signal \notin aborted']_vars

C9_Witness ==
  \E r \in Runs :
    /\ run[r].pc = "catch" /\ run[r].err = "abort"
    /\ run[r].lastErr = "http" /\ run[r].attempt = 0 /\ run[r].calls = 1
    /\ run[r].signal \in aborted

C11_CancelIsNotAnError ==
  \A r \in Runs :
    (run[r].cancelHit /\ run[r].pc = "done")
      => /\ run[r].outcome = "canceled"
         /\ logs[Len(logs)] = <<"warn", "Translate canceled.">>
         /\ \A j \in 1..Len(logs) : logs[j][1] # "error"

\* C13: no row whose translation the TM pre-fill of a run has written is in
\* a batch that the same run sends to the provider.
C13_TMHitsAreNotSent ==
  \A r \in Runs : run[r].sent \cap run[r].filled = {}

\* C16: when a run has ended as failed or canceled and translateScope is then
\* called again with the same scope, the second run sends to the provider no
\* row that the first run had committed.
C16_RerunSendsOnlyTheRest ==
  \A a \in Runs :
    LET b == Other(a) IN
    (/\ Earlier(a, b) /\ run[a].pc = "done" /\ run[a].supersededAt = -1
     /\ run[a].outcome \in {"failed", "canceled"}
     /\ run[b].pc # "idle" /\ run[b].scope = run[a].scope)
      => \A i \in Items : run[a].wrote[i] # null => i \notin run[b].sent

\* the rows of the first n candidates of run r
FirstCands(r, n) == {run[r].cands[j] : j \in 1..Min(n, Len(run[r].cands))}

\* C17: while a run is requesting batch k+1 or holds its result, the commits
\* of batches 1..k have completed and no other; the candidate list is in
\* ascending row order, the rows sent so far are its first k+1 slices, and
\* every row committed so far precedes every row of the batch requested.
C17_BatchesInSequence ==
  \A r \in Runs :
    run[r].pc \in {"inflight", "sleeping", "commit"}
      => /\ run[r].ncommit * BatchSize = run[r].start
         /\ \A j \in 1..(Len(run[r].cands) - 1) : run[r].cands[j] < run[r].cands[j + 1]
         /\ run[r].sent = FirstCands(r, run[r].start + BatchSize)
         /\ {i \in Items : run[r].wrote[i] # null} = FirstCands(r, run[r].start)
         /\ \A j \in 1..Len(Batch(run[r])) : \A i \in Items :
              run[r].wrote[i] # null => i < Batch(run[r])[j]

C17_Witness ==
  \E r \in Runs :
    /\ run[r].pc = "inflight" /\ run[r].ncommit = 2 /\ run[r].start = 2
    /\ Batch(run[r]) = <<3>> /\ run[r].wrote[1] # null /\ run[r].wrote[2] # null

\* C19: for one line, the k-th attempt goes to the k-th endpoint of the list
\* (the configured base URL, then the built-in pool), and no two attempts for
\* the line go to the same mirror.
C19_MirrorRotation ==
  \A r \in Runs :
    LET m == run[r].mirrors
        urls == LingvaUrls(settings.lingvaBaseUrl)
    IN /\ \A k \in 1..Len(m) : m[k] = Endpoint(urls[k])
       /\ \A j \in 1..Len(m) : \A k \in 1..Len(m) : j # k => m[j] # m[k]

\* the step is the TM pre-fill transaction of run r
IsTmWrite(r) == run[r].pc = "tmwrite" /\ run'[r].pc = "recompute"

\* C12: the TM pre-fill transaction of a run changes no row that is outside
\* the candidates the run computed for its scope.
C12_PrefillOverCandidatesOnly ==
  [][\A r \in Runs :
       IsTmWrite(r)
         => \A i \in Items :
              dialogs'[i] # dialogs[i]
                => \E j \in 1..Len(run[r].cands0) : run[r].cands0[j] = i]_vars

\* C14 as stated: with TM enabled, the entry of a TM key holds the text last
\* stored, by a batch commit or a manual edit, for a row of that source key.
C14_TMWriteThenRead ==
  settings.tmEnabled
    => \A k \in TMKeys :
         hist.stored[k] # null => tm[k].translatedText = hist.stored[k]

\* C14 amended: with TM enabled and auto-add on, the entry of a TM key holds
\* the last text with a non-whitespace character that a batch commit or a
\* manual edit has stored for a row of that source key.
C14_TMWriteThenReadAutoAdd ==
  (settings.tmEnabled /\ settings.tmAutoAdd)
    => \A k \in TMKeys :
         hist.storedText[k] # null => tm[k].translatedText = hist.storedText[k]

C14_Witness ==
  /\ settings.tmEnabled /\ settings.tmAutoAdd
  /\ \E k \in TMKeys :
       /\ hist.stored[k] = <<" ">> /\ hist.storedText[k] = <<"PH0">>
       /\ tm[k].translatedText = <<"PH0">>

\* the key of an entry as the TM is meant to hold it
NormKey(k) == <<Lower(Trim(k[1])), Trim(k[2])>>

Present(t) == {k \in DOMAIN t : t[k] # NoEntry}

\* C15: the TM never holds two entries whose keys agree after trimming and
\* lower-casing the language and trimming the source key; an entry, once
\* there, stays under its key with its use count, whatever is written; and a
\* commit or edit that stores a non-blank text with auto-add on leaves its
\* entry under the normalised key of the row.
C15_TMKeysUnique ==
  [][/\ \A k1 \in Present(tm') : \A k2 \in Present(tm') :
          NormKey(k1) = NormKey(k2) => k1 = k2
     /\ \A k \in Present(tm) :
          k \in Present(tm') /\ tm'[k].useCount >= tm[k].useCount
     /\ \A i \in Items :
          (/\ hist'.written[i] # hist.written[i]
           /\ \A r \in Runs : ~IsTmWrite(r)
           /\ settings.tmEnabled /\ settings.tmAutoAdd
           /\ Trim(hist'.written[i]) # <<>>)
            => LET k == NormKey(<<settings.targetLang, CacheKey(i)>>) IN
               /\ k \in Present(tm')
               /\ Cardinality(Present(tm')) =
                    Cardinality(Present(tm) \cup {NormKey(<<settings.targetLang, CacheKey(x)>>) :
                       x \in {y \in Items : hist'.written[y] # hist.written[y]
                                             /\ Trim(hist'.written[y]) # <<>>}})]_vars

C15_Witness ==
  /\ settings.targetLang = <<"VI", " ">>
  /\ Present(tm) = {<<<<"vi">>, <<"k1">>>>}
  /\ tm[<<<<"vi">>, <<"k1">>>>].translatedText = <<"PH0">>
  /\ tm[<<<<"vi">>, <<"k1">>>>].useCount = 2

\* the rows of run r's batch whose text still holds a masking token
Affected(r) ==
  LET batch == Batch(run[r])
      normalized == postprocessTranslatedLines(batch, run[r].out)
  IN {batch[j] : j \in {x \in 1..Len(batch) : checkPlaceholders(normalized[x])}}

\* C18: the transaction of a batch writes every row of the batch, also the
\* rows whose text still holds a masking token; the step after it appends
\* exactly one warning for each such row and nothing else, and the run goes
\* on to its next batch.
C18_PlaceholderCheckIsAdvisory ==
  [][\A r \in Runs :
       /\ (run[r].pc = "commit" /\ run'[r].pc # "commit")
            => /\ run'[r].pc = "progress"
               /\ \A j \in 1..Len(Batch(run[r])) :
                    dialogs'[Batch(run[r])[j]] =
                      postprocessTranslatedLines(Batch(run[r]), run[r].out)[j]
       /\ (run[r].pc = "progress" /\ run'[r].pc # "progress")
            => /\ run'[r].pc = "batch"
               /\ Len(logs') = Len(logs) + Cardinality(Affected(r))
               /\ \A i \in Affected(r) :
                    Cardinality({j \in (Len(logs) + 1)..Len(logs') :
                       logs'[j] = <<"warn", "Placeholder still appears", i>>}) = 1]_vars

C18_Witness ==
  \E r \in Runs :
    /\ run[r].pc = "batch" /\ run[r].ncommit = 1
    /\ dialogs[1] = <<"PH0">> /\ dialogs[2] = <<"PH0">>
    /\ \A i \in {1, 2} :
         \E j \in 1..Len(logs) : logs[j] = <<"warn", "Placeholder still appears", i>>

\* C20: whatever the interleaving of batch commits, TM pre-fills and manual
\* edits, every row holds exactly the text of the write committed last on it,
\* and a row nobody wrote holds none.
C20_LastWriterWins ==
  \A i \in Items : dialogs[i] = hist.written[i]

C20_Witness ==
  \E i \in Items :
    /\ hist.nedits = 1
    /\ run["A"].wrote[i] = <<"PH0">> /\ dialogs[i] = <<"ed">>

\* C23  Within one run the progress counter never decreases, stays within
\* 0..total, grows by exactly the length of the batch at each batch commit,
\* and equals total once the last batch has been committed.
C23_ProgressCounter ==
  [][/\ progress'.done >= 0
     /\ progress'.done <= progress'.total
     /\ (progress.running /\ progress'.running => progress'.done >= progress.done)
     /\ (run["A"].pc = "progress" /\ run'["A"].pc = "batch" =>
           /\ progress'.done = progress.done + Len(Batch(run["A"]))
           /\ (run'["A"].start >= Len(run'["A"].cands) => progress'.done = progress'.total))]_vars

\* two batches committed, the second one shorter than the batch size
C23_Witness ==
  /\ run["A"].pc = "batch"
  /\ run["A"].ncommit = 2
  /\ Len(run["A"].cands) = 3
  /\ BatchSize = 2
  /\ progress = [running |-> TRUE, total |-> 3, done |-> 3]

RECURSIVE Flatten(_)
Flatten(ss) == IF ss = <<>> THEN <<>> ELSE Head(ss) \o Flatten(Tail(ss))

\* C29  The effective batch size is an integer in 1..60 whatever batch size
\* is stored; the batches of a run are non-empty slices of the candidate list
\* left after the TM pre-fill, all of batchSize rows but possibly the last,
\* taken in list order, and when the run completes every candidate is in
\* exactly one batch.
C29_BatchPartition ==
  LET rec == run["A"]
      bs == rec.batches
      flat == Flatten(bs)
  IN /\ BatchSize \in 1..MaxBatchSize
     /\ \A j \in 1..Len(bs) :
          /\ bs[j] # <<>>
          /\ Len(bs[j]) <= BatchSize
          /\ j < Len(bs) => Len(bs[j]) = BatchSize
     /\ flat = SubSeq(rec.cands, 1, Len(flat))
     /\ (rec.outcome = "completed" /\ rec.cands # <<>>) =>
          /\ flat = rec.cands
          /\ \A c \in 1..Len(rec.cands) :
               Cardinality({j \in 1..Len(bs) :
                  \E x \in 1..Len(bs[j]) : bs[j][x] = rec.cands[c]}) = 1

\* a completed run of two batches, the last one shorter
C29_Witness ==
  /\ run["A"].outcome = "completed"
  /\ run["A"].batches = <<<<1, 2>>, <<3>>>>
  /\ BatchSize = 2

\* a completed run whose stored batch size lies outside 1..60
C29_WitnessClamped ==
  /\ run["A"].outcome = "completed"
  /\ run["A"].batches = <<<<1, 2, 3>>>>
  /\ BatchSize = MaxBatchSize

\* C30  withRetry: a successful attempt is the first one that succeeds and
\* no attempt follows it; when all retries + 1 attempts fail and no
\* cancellation came, the error thrown is the one of the last attempt,
\* onRetry has been called once per failed attempt but the last, and no sleep
\* follows the last attempt.
C30_WithRetryResult ==
  LET rec == run["A"] IN
  /\ rec.pc = "commit" =>
       /\ rec.calls = Len(rec.errs) + 1
       /\ rec.calls = rec.attempt + 1
  /\ (rec.pc = "catch" /\ rec.err \in ProviderErrors /\ ~rec.cancelHit) =>
       /\ rec.calls = Retries + 1
       /\ Len(rec.errs) = Retries + 1
       /\ rec.err = rec.errs[Retries + 1]
       /\ rec.nretry = Retries
       /\ rec.nsleep = Retries

\* every attempt has failed, the last one with another error than the first
C30_Witness ==
  /\ run["A"].pc = "catch"
  /\ ~run["A"].cancelHit
  /\ run["A"].errs = <<"http", "nocontent">>
  /\ run["A"].err = "nocontent"

\* the second attempt succeeds
C30_WitnessSuccess ==
  /\ run["A"].pc = "commit"
  /\ run["A"].errs = <<"http">>
  /\ run["A"].calls = 2

RunEnded == run["A"].pc = "done" /\ run["A"].outcome # "noop"

\* C22  A run that has set progress.running leaves the running state in the
\* end, every provider request being answered; it ends as exactly one of
\* completed, canceled and failed, and once it has ended progress.running is
\* false and done and total are 0.
C22_RunLeavesRunning ==
  /\ progress.running ~> RunEnded
  /\ [](RunEnded =>
         /\ run["A"].outcome \in {"completed", "canceled", "failed"}
         /\ progress = [running |-> FALSE, total |-> 0, done |-> 0])

\* a run that ended canceled after one committed batch
C22_Witness ==
  /\ RunEnded
  /\ run["A"].outcome = "canceled"
  /\ run["A"].ncommit = 1
  /\ ~progress.running

\* C27  Restoring the tags of a masked text with the placeholders its masking
\* produced gives the text back, whatever the text: no tag, ten tags or
\* more, tags that hold placeholder-like or replacement-pattern characters.
C27_MaskRoundTrip ==
  call.pc = "restored" => call.restored = call.text

\* C26  Merging a source with every item translated as its own original
\* quote gives the source back unchanged.
C26_MergeRoundTrip ==
  call.pc = "merged" => call.merged = call.raw

\* the request carries no apiKey, or a blank one
NoApiKey(b) ==
  \/ b.kind = "none"
  \/ b.kind = "string" /\ b.json = "null"
  \/ b.kind \in {"object", "string"} /\ b.json # "malformed" /\ Trim(b.obj.apiKey) = <<>>

\* C28  The relay answers OPTIONS with 204 and the CORS headers; an OPTIONS
\* request, a request that is not POST and a request with a missing or blank
\* apiKey are answered 204, 405 and 400 and never reach the vendor.
C28_RelayBoundary ==
  /\ (call.method = "OPTIONS" /\ call.pc # "request") =>
       /\ call.pc = "answered" /\ call.status = 204 /\ call.cors /\ call.nupstream = 0
  /\ (call.method = "GET" /\ call.pc # "request") =>
       /\ call.pc = "answered" /\ call.status = 405 /\ call.nupstream = 0
  /\ (call.method = "POST" /\ NoApiKey(call.body) /\ call.pc # "request") =>
       /\ call.pc = "answered" /\ call.status = 400 /\ call.nupstream = 0

\* the entries of the file that pass the three checks and land at key k
LandingAt(entries, k) ==
  {j \in 1..Len(entries) :
     /\ Lower(Trim(entries[j].targetLang)) # <<>>
     /\ Trim(entries[j].sourceKey) # <<>>
     /\ Trim(entries[j].translatedText) # <<>>
     /\ tmKey(entries[j].targetLang, entries[j].sourceKey) = k}

\* C24  importTM merges by key with overwrite: a key some entry with a
\* targetLang, a sourceKey and a non-blank translatedText lands at holds the
\* text of the last such entry of the file; entries that fail a check change
\* nothing, and every other key keeps its entry.
C24_ImportMergesByKey ==
  [][(op.pc = "tmput" /\ op'.pc = "tmdone") =>
       \A k \in TMKeys :
         LET js == LandingAt(op.entries, k) IN
         IF js = {} THEN tm'[k] = tm[k]
         ELSE tm'[k].translatedText =
                op.entries[CHOOSE j \in js : \A x \in js : x <= j].translatedText]_vars

\* two entries of the file land at the key of an entry the TM already holds,
\* the second one under another spelling of the language
C24_Witness ==
  /\ op.pc = "tmdone"
  /\ op.entries = <<[targetLang |-> <<"vi">>, sourceKey |-> <<"k1">>, translatedText |-> <<"t1">>],
                    [targetLang |-> <<"VI", " ">>, sourceKey |-> <<"k1">>, translatedText |-> <<"t2">>]>>
  /\ tm[<<<<"vi">>, <<"k1">>>>].translatedText = <<"t2">>

\* the rows db.dialogs holds for file f
RowsOf(f) == {r \in others : r.fileId = f.id}

\* C25  After importLocalFiles every imported file has the rows fileId:idx
\* for idx = 0 .. n-1, each once, n being its dialogCount; no row is without
\* its file row and no file row without its rows: the file row and the rows
\* are added together or not at all.
C25_RowsKeyedByFileAndIndex ==
  /\ \A f \in files \ {CurrentFile} :
       /\ {r.idx : r \in RowsOf(f)} = 0..(f.dialogCount - 1)
       /\ Cardinality(RowsOf(f)) = f.dialogCount
       /\ \A r \in RowsOf(f) : r.id = <<f.id, ":">> \o Digits(r.idx)
  /\ \A r \in others : \E f \in files : f.id = r.fileId
  /\ \A r1, r2 \in others : r1.id = r2.id => r1 = r2
  /\ \A f1, f2 \in files : f1.id = f2.id => f1 = f2

\* two files imported, one of two dialogues and one of none, and a third
\* import under way whose id is in use
C25_Witness ==
  /\ [id |-> "Y", dialogCount |-> 2] \in files
  /\ [id |-> "Z", dialogCount |-> 0] \in files
  /\ Cardinality(others) = 2
  /\ op.pc = "addfile" /\ op.fileId = "Y"

\* C21  Once resetProject has completed no dialogue row exists whose file
\* row does not: a manual edit, a bulk edit, a TM fill or a run in progress
\* never brings a deleted row back.
C21_NoOrphanRows ==
  /\ \A i \in Items : dialogs[i] # Absent => CurrentFile \in files
  /\ \A r \in others : \E f \in files : f.id = r.fileId

\* the run is between its first log line and the end of its finally block
Executing(r) == run[r].pc \notin {"idle", "done"}

\* C33  The cleanup of a run that ends leaves a run that is still active
\* alone: while some run is executing, the shared controller is not null, it
\* is the controller of a run that is executing, and progress.running is
\* true.
C33_CleanupLeavesActiveRun ==
  (\E r \in Runs : Executing(r)) =>
    /\ activeAbort # "none"
    /\ Executing(activeAbort)
    /\ progress.running

\* the candidates the scope names: every row of the file, the selected rows,
\* the rows without a translation
ScopeItems(sc) ==
  SeqFilter(ItemSeq, LAMBDA i :
    /\ dialogs[i] # Absent
    /\ sc = "selected" => i \in view.selected
    /\ sc = "missing" => ~HasTranslation(dialogs[i]))

\* C32  What the scope of a run covers: with 'all' every row of the current
\* file is a candidate whatever the view shows, with 'selected' exactly the
\* selected rows, with 'missing' exactly the rows whose translated is null,
\* empty or blank.
C32_ScopeCoverage ==
  [][\A sc \in ScopeEnv.scopes :
       Start("A", sc) =>
         /\ ScopeItems(sc) # <<>> => run'["A"].pc = "prefill"
         /\ run'["A"].pc = "prefill" => run'["A"].cands0 = ScopeItems(sc)]_vars

\* listTM('', limit, targetLang) with a limit above the size of the TM:
\* db.tm.where('targetLang').equals(targetLang.trim().toLowerCase())
listTM(targetLang) ==
  {k \in TMKeys : tm[k] # NoEntry /\ tm[k].targetLang = Lower(Trim(targetLang))}

\* C35  Every TM entry is consistent with its key, whichever operation wrote
\* it: the key is tmKey(entry.targetLang, entry.sourceKey), entry.targetLang
\* is the trimmed, lower-case language, and listTM for a language returns
\* every entry stored under the keys of that language.
C35_EntryMatchesKey ==
  /\ \A k \in TMKeys :
       tm[k] # NoEntry =>
         /\ k = tmKey(tm[k].targetLang, tm[k].sourceKey)
         /\ tm[k].targetLang = Lower(Trim(tm[k].targetLang))
  /\ \A l \in TargetLangs :
       {k \in TMKeys : tm[k] # NoEntry /\ k[1] = Lower(Trim(l))} \subseteq listTM(l)

\* C31  resetProject leaves every TM entry as it was (key, text, counters),
\* and the set of TM keys changes only in a step of deleteTM, clearTM,
\* importTM or the upsert of a batch commit, a manual edit or a bulk edit.
C31_ResetKeepsTM ==
  [][/\ resetProject => tm' = tm
     /\ Present(tm') # Present(tm) =>
          \/ \E k \in TMKeys : deleteTM(k)
          \/ clearTM
          \/ importTMPut
          \/ Commit("A")
          \/ updateTranslationPut
          \/ \E u \in BulkUpdates : bulkUpdateTranslations(u)]_vars

\* the project has been reset and the TM still holds an entry
C31_Witness == files = {} /\ Present(tm) # {} /\ \A i \in Items : dialogs[i] = Absent

\* C36  No TM entry holds an empty or whitespace-only translatedText, after
\* any sequence of runs, manual edits, bulk edits, TM applications and TM
\* imports: every writer skips a blank text.
C36_NoBlankEntry ==
  \A k \in TMKeys : tm[k] # NoEntry => Trim(tm[k].translatedText) # <<>>

\* a blank text has been written to a row with auto-add on, a TM file with a
\* blank entry has been imported, and the TM holds entries
C36_Witness ==
  /\ run["A"].ncommit > 0
  /\ \E i \in Items : hist.written[i] = <<" ">>
  /\ op.pc = "tmdone"
  /\ \E j \in 1..Len(op.entries) : Trim(op.entries[j].translatedText) = <<>>
  /\ Present(tm) # {}

\* entry for entry, the TM differs from the one before by useCount at most
SameButUseCount(t1, t2) ==
  \A k \in TMKeys : t2[k] = [t1[k] EXCEPT !.useCount = t2[k].useCount]

\* C37 (as stated)  With TM disabled a run neither reads nor writes the TM
\* store and manual edits write no entry; with TM enabled and auto-add off,
\* runs and edits write no TM entry either: no step changes the TM.
C37_TMOffNoWrite ==
  [][/\ ~settings.tmEnabled => tm' = tm /\ ~run'["A"].tmRead
     /\ (settings.tmEnabled /\ ~settings.tmAutoAdd) => tm' = tm]_vars

\* C37 (amended)  With TM disabled a run neither reads nor writes the TM
\* store and manual edits write no entry; with TM enabled and auto-add off,
\* runs and edits add no entry and change no entry's text, and only the
\* pre-fill of a run raises useCount.
C37_TMOffNoUpsert ==
  [][/\ ~settings.tmEnabled => tm' = tm /\ ~run'["A"].tmRead
     /\ (settings.tmEnabled /\ ~settings.tmAutoAdd) =>
          /\ SameButUseCount(tm, tm')
          /\ tm' # tm => TmWrite("A")]_vars

\* auto-add is off, the pre-fill has used an entry, and a run and an edit
\* have written non-blank texts
C37_Witness ==
  /\ settings.tmEnabled /\ ~settings.tmAutoAdd
  /\ run["A"].pc = "done" /\ run["A"].ncommit > 0
  /\ hist.nedits = MaxEdits
  /\ \E k \in TMKeys : tm[k].useCount > 0
  /\ \A i \in Items : HasTranslation(dialogs[i])

\* no run is active and no edit is in flight
Quiescent == run["A"].pc \in {"idle", "done"} /\ op.pc = "idle"

\* C34  Once every pending operation has finished, the in-memory list of the
\* current file equals the persisted rows of that file, however manual edits
\* interleave with the batch commits and the refreshes of a run.
C34_ListMatchesRows == Quiescent => stateDialogs = dialogs

\* a run has committed batches, an edit has been made, and both a text of
\* the edit and a text of the run are in the rows
C34_Witness ==
  /\ Quiescent
  /\ run["A"].pc = "done" /\ run["A"].ncommit > 0
  /\ hist.nedits = MaxEdits
  /\ \E i \in Items : dialogs[i] = <<"ed">>
  /\ \E i \in Items : dialogs[i] \notin {<<"ed">>, null}

\* C38  After import no operation changes a field of a row other than
\* translated and updatedAt: id, fileId, idx, quote, placeholderMap and
\* cacheKey of every row keep the values the import gave them, under every
\* interleaving of batch commits, TM pre-fill, manual and bulk edits.
C38_RowFieldsKept ==
  \A i \in Items : dialogs[i] # Absent => rowFields[i] = ImportFields(i)

\* the pre-fill, a batch commit and a manual edit have each written rows
C38_Witness ==
  /\ run["A"].pc = "done" /\ run["A"].filled # {} /\ run["A"].ncommit > 0
  /\ hist.nedits = MaxEdits /\ op.pc = "idle"
  /\ \E i \in Items : dialogs[i] = <<"ed">>

====
